---- MODULE Spec2Model ----
(***************************************************************************)
(* Model of the reconciliation / diff core of the family-office workflow:  *)
(*   - OpenBankingFetcher.isSignificantChange  (significance filter)       *)
(*   - OpenBankingFetcher.detectChanges        (snapshot differencer)      *)
(*   - OpenBankingFetcher.transformToInternalFormat (normalizer)           *)
(*   - the crypto attachment step of OpenBankingFetcher.fetchAndUpdate     *)
(*   - OpenBankingFetcher.fetchAndUpdate and logToLedger (fetch cycle,     *)
(*     ledger writer)                                                      *)
(*   - SmartCryptoFetcher.getAllTokensForWallet (token discovery)          *)
(*   - SmartCryptoFetcher.getTokenPrice (price cache) and the external     *)
(*     calls of one (wallet, chain) unit of fetchAllPositions              *)
(*   - AnalysisOrchestrator.generateParallelInstructions (batch splitter)  *)
(*   - PortfolioApp of cli.tsx (refresh effect)                            *)
(*                                                                         *)
(* Numbers of the program are IEEE doubles.  Money amounts and quantities  *)
(* are modelled by integers; a quotient (percentChange, currentPrice) is   *)
(* modelled exactly, as a fraction [num, den].  An optional field of a     *)
(* JavaScript object is modelled by a sequence: <<>> is undefined, <<v>>   *)
(* is the value v.                                                         *)
(***************************************************************************)
EXTENDS Integers, Sequences, FiniteSets, TLC

VARIABLES
    pc,                 \* position of the modelled caller
    envPercent,         \* process.env.SIGNIFICANCE_PERCENT_THRESHOLD
    envValue,           \* process.env.SIGNIFICANCE_VALUE_EUR_THRESHOLD
    sigChange,          \* the PositionChange handed to isSignificantChange
    significant,        \* its result, <<>> before the call
    lastRun,            \* the thresholds and the result of the previous call
    oldData,            \* previousData: the snapshot read from the positions file
    newData,            \* the snapshot of this fetch cycle
    changes,            \* result of detectChanges
    significantChanges, \* changes.filter(isSignificantChange)
    accountsData,       \* the accounts the banking API returned
    investmentsData,    \* investments.investments, the raw instrument rows
    cryptoWallets,      \* process.env.CRYPTO_WALLETS, split
    cryptoConfigLoads,  \* whether data/crypto_config.json can be read
    walletResults,      \* what the chain collaborators answer per wallet and chain
    ledgerFile,         \* entries of data/ledger.json
    positionsFile,      \* content of data/positions.json, <<>> while absent
    cycle,              \* per fetch cycle: its position and its locals
    tokenDatabase,      \* config.tokenDatabase: the cached TokenMetadata, by key
    scan,               \* the getAllTokensForWallet call in progress
    researchLog,        \* the calls of researchToken: the run and the address
    priceCache,         \* config.priceCache: the cached price of each cache key
    clock,              \* Date.now(), in milliseconds
    cacheExpiryHours,   \* config.discovery.cacheExpiryHours
    pricing,            \* the balance resolutions of one scan and their price lookups
    rpcBounded,         \* whether the JSON-RPC provider of the build gives up on a silent node
    calls,              \* the external calls of one (wallet, chain) unit: position and outcomes
    batch,              \* the analysis orchestrator: its arguments, its position and its locals
    app                 \* PortfolioApp: its React state, the locals of its effect, the loads in flight

sigVars == <<sigChange, significant, lastRun>>
envVars == <<envPercent, envValue>>
diffVars == <<oldData, newData, changes, significantChanges>>
normVars == <<accountsData, investmentsData, cryptoWallets, cryptoConfigLoads, walletResults>>
cycleVars == <<ledgerFile, positionsFile, cycle>>
discVars == <<tokenDatabase, scan, researchLog>>
priceVars == <<priceCache, clock, cacheExpiryHours, pricing>>
callVars == <<rpcBounded, calls>>
batchVars == <<batch>>
cliVars == <<app>>
vars == <<pc, envVars, sigVars, diffVars, normVars, cycleVars, discVars, priceVars, callVars, batchVars, cliVars>>

\* the variables a specification does not use keep these values
DiffUnused ==
    /\ oldData = <<>>
    /\ newData = <<>>
    /\ changes = <<>>
    /\ significantChanges = <<>>

SigUnused ==
    /\ sigChange = <<>>
    /\ significant = <<>>
    /\ lastRun = <<>>

CycleUnused ==
    /\ ledgerFile = <<>>
    /\ positionsFile = <<>>
    /\ cycle = <<>>

DiscUnused ==
    /\ tokenDatabase = {}
    /\ scan = <<>>
    /\ researchLog = <<>>

PriceUnused ==
    /\ priceCache = <<>>
    /\ clock = 0
    /\ cacheExpiryHours = 0
    /\ pricing = <<>>

CallUnused ==
    /\ rpcBounded = FALSE
    /\ calls = <<>>

BatchUnused ==
    /\ batch = <<>>

CliUnused ==
    /\ app = <<>>

NormUnused ==
    /\ accountsData = <<>>
    /\ investmentsData = <<>>
    /\ cryptoWallets = <<>>
    /\ cryptoConfigLoads = FALSE
    /\ walletResults = <<>>

----------------------------------------------------------------------------
(* Optional values and fractions *)

Undefined == <<>>
Some(v) == <<v>>

\* JavaScript truthiness of an optional number: defined and not 0
Truthy(o) == o # Undefined /\ o[1] # 0

Abs(x) == IF x < 0 THEN -x ELSE x

Frac(n, d) == [num |-> n, den |-> d]

\* JavaScript truthiness of an optional fraction (den > 0 always)
TruthyFrac(o) == o # Undefined /\ o[1].num # 0

\* |f| >= t for a fraction f with den > 0
FracAbsGeq(f, t) == Abs(f.num) >= t * f.den

FracEq(f, g) == f.num * g.den = g.num * f.den

----------------------------------------------------------------------------
(* PositionChange, as detectChanges builds its four variants *)

NewChange(symbol, pos) ==
    [type |-> "new", symbol |-> symbol,
     oldValue |-> Undefined, newValue |-> Some(pos.marketValue),
     oldShares |-> Undefined, newShares |-> Some(pos.shares),
     percentChange |-> Undefined]

ClosedChange(symbol, pos) ==
    [type |-> "closed", symbol |-> symbol,
     oldValue |-> Some(pos.marketValue), newValue |-> Undefined,
     oldShares |-> Some(pos.shares), newShares |-> Undefined,
     percentChange |-> Undefined]

\* a plausible slip: the delta divided by the new value
ValueChange_overNewValue(symbol, oldValue, newValue) ==
    [type |-> "value_change", symbol |-> symbol,
     oldValue |-> Some(oldValue), newValue |-> Some(newValue),
     oldShares |-> Undefined, newShares |-> Undefined,
     percentChange |-> Some(Frac((newValue - oldValue) * 100, newValue))]

\* percentChange = ((newValue - oldValue) / oldValue) * 100, oldValue > 0
ValueChange(symbol, oldValue, newValue) ==
    [type |-> "value_change", symbol |-> symbol,
     oldValue |-> Some(oldValue), newValue |-> Some(newValue),
     oldShares |-> Undefined, newShares |-> Undefined,
     percentChange |-> Some(Frac((newValue - oldValue) * 100, oldValue))]

ShareChange(symbol, oldShares, newShares, oldValue, newValue) ==
    [type |-> "share_change", symbol |-> symbol,
     oldValue |-> Some(oldValue), newValue |-> Some(newValue),
     oldShares |-> Some(oldShares), newShares |-> Some(newShares),
     percentChange |-> Undefined]

----------------------------------------------------------------------------
(* Significance filter *)

DefaultPercentThreshold == 5
DefaultValueThreshold == 1000

\* parseFloat(process.env.X || default)
percentThreshold == IF envPercent = Undefined THEN DefaultPercentThreshold ELSE envPercent[1]
valueThreshold == IF envValue = Undefined THEN DefaultValueThreshold ELSE envValue[1]

\* a plausible slip: the currency comparison written the wrong way round
isSignificantChange_flipped(change, pctT, valT) ==
    IF change.type \in {"new", "closed"} THEN TRUE
    ELSE IF TruthyFrac(change.percentChange)
            /\ FracAbsGeq(change.percentChange[1], pctT) THEN TRUE
    ELSE IF Truthy(change.oldValue) /\ Truthy(change.newValue)
         THEN Abs(change.newValue[1] - change.oldValue[1]) <= valT
    ELSE FALSE

isSignificantChange(change, pctT, valT) ==
    IF change.type \in {"new", "closed"} THEN TRUE
    ELSE IF TruthyFrac(change.percentChange)
            /\ FracAbsGeq(change.percentChange[1], pctT) THEN TRUE
    ELSE IF Truthy(change.oldValue) /\ Truthy(change.newValue)
         THEN Abs(change.newValue[1] - change.oldValue[1]) >= valT
    ELSE FALSE

----------------------------------------------------------------------------
(* SpecSig: isSignificantChange called on the changes detectChanges can    *)
(* build, under thresholds the environment can set and change between runs *)

SigOldValues == {1000, 2000}
SigNewValues == {0, 1000, 1200, 2000, 5000}
SigShares == {5, 8}
EnvPercentValues == {Undefined, Some(0), Some(50), Some(150)}
EnvValueValues == {Undefined, Some(100), Some(3000)}

SigPosition(v, s) == [marketValue |-> v, shares |-> s]

SigChanges ==
    {ValueChange("A", p[1], p[2]) :
        p \in {q \in SigOldValues \X SigNewValues : q[1] # q[2]}}
    \cup {ShareChange("A", 5, 8, o, n) : o \in SigNewValues, n \in SigNewValues}
    \cup {NewChange("A", SigPosition(v, s)) : v \in SigNewValues, s \in SigShares}
    \cup {ClosedChange("A", SigPosition(v, s)) : v \in SigNewValues, s \in SigShares}

InitSig ==
    /\ CliUnused
    /\ BatchUnused
    /\ CallUnused
    /\ PriceUnused
    /\ DiscUnused
    /\ CycleUnused
    /\ pc = "classify"
    /\ envPercent \in EnvPercentValues
    /\ envValue \in EnvValueValues
    /\ sigChange \in SigChanges
    /\ significant = Undefined
    /\ lastRun = Undefined
    /\ DiffUnused
    /\ NormUnused

\* one call of isSignificantChange
Classify ==
    /\ pc = "classify"
    /\ significant' = Some(isSignificantChange(sigChange, percentThreshold, valueThreshold))
    /\ pc' = "classified"
    /\ UNCHANGED <<envVars, sigChange, lastRun, diffVars, normVars, cycleVars, discVars, priceVars,
                   callVars, batchVars, cliVars>>

\* the operator changes the thresholds in the environment before the next run
Reconfigure ==
    /\ pc = "classified"
    /\ lastRun' = Some([percent |-> percentThreshold, value |-> valueThreshold,
                        significant |-> significant[1]])
    /\ envPercent' \in EnvPercentValues
    /\ envValue' \in EnvValueValues
    /\ significant' = Undefined
    /\ pc' = "classify"
    /\ UNCHANGED <<sigChange, diffVars, normVars, cycleVars, discVars, priceVars, callVars,
                   batchVars, cliVars>>

NextSig == Classify \/ Reconfigure

SpecSig == InitSig /\ [][NextSig]_vars

----------------------------------------------------------------------------
(* Snapshots (PortfolioData) *)

\* the partitions of PortfolioPositions
AllCategories ==
    {"equities", "funds", "bonds", "cash", "private_equity", "private_debt",
     "real_estate", "crowdfunding", "crypto"}

\* a position as the differencer reads it; marketValue and shares are the
\* values after `|| 0` (0 stands for an absent field too)
Position(symbol, isin, marketValue, shares) ==
    [symbol |-> symbol, isin |-> isin, marketValue |-> marketValue, shares |-> shares]

EmptyPositions == [c \in AllCategories |-> <<>>]

\* the snapshot holding the positions of `placed`, each in its partition `cat`,
\* in the order of `placed`
SnapshotOf(placed) ==
    [positions |->
        [c \in AllCategories |->
            LET mine == SelectSeq(placed, LAMBDA p : p.cat = c)
            IN [i \in 1..Len(mine) |->
                    Position(mine[i].symbol, mine[i].isin,
                             mine[i].marketValue, mine[i].shares)]]]

\* the concatenation of the sequences of ss, in order
Concat(ss) ==
    LET f[i \in 0..Len(ss)] == IF i = 0 THEN <<>> ELSE f[i - 1] \o ss[i]
    IN f[Len(ss)]

----------------------------------------------------------------------------
(* Snapshot differencer *)

\* the categories detectChanges walks, in its order
categories ==
    <<"equities", "funds", "private_equity", "private_debt", "real_estate",
      "crowdfunding", "crypto">>

\* pos.symbol || pos.isin || ''
symbolOf(pos) == IF pos.symbol # "" THEN pos.symbol ELSE pos.isin

\* a Record<string, any> is a sequence of entries in insertion order
Has(map, key) == \E i \in 1..Len(map) : map[i].key = key
\* a plausible slip: the lookup reads the first entry, whatever the key
Get_first(map, key) == map[1].pos

Get(map, key) == map[CHOOSE i \in 1..Len(map) : map[i].key = key].pos

\* map[key] = pos: a present key keeps its place and takes the new value
Put(map, key, pos) ==
    IF Has(map, key)
    THEN [i \in 1..Len(map) |->
            IF map[i].key = key THEN [key |-> key, pos |-> pos] ELSE map[i]]
    ELSE Append(map, [key |-> key, pos |-> pos])

\* the flattening loop of detectChanges for one of the two snapshots
flatten(data) ==
    LET putAll(map, positions) ==
            LET f[i \in 0..Len(positions)] ==
                    IF i = 0 THEN map
                    ELSE IF symbolOf(positions[i]) = "" THEN f[i - 1]
                    ELSE Put(f[i - 1], symbolOf(positions[i]), positions[i])
            IN f[Len(positions)]
        g[c \in 0..Len(categories)] ==
            IF c = 0 THEN <<>> ELSE putAll(g[c - 1], data.positions[categories[c]])
    IN g[Len(categories)]

detectChanges(old, new, pctT, valT) ==
    LET oldPositions == flatten(old)
        newPositions == flatten(new)
        opened(e) ==
            IF ~Has(oldPositions, e.key) THEN <<NewChange(e.key, e.pos)>> ELSE <<>>
        closed(e) ==
            IF ~Has(newPositions, e.key) THEN <<ClosedChange(e.key, e.pos)>> ELSE <<>>
        changed(e) ==
            IF Has(newPositions, e.key)
            THEN LET oldValue == e.pos.marketValue
                     newValue == Get(newPositions, e.key).marketValue
                     oldShares == e.pos.shares
                     newShares == Get(newPositions, e.key).shares
                     change == ValueChange(e.key, oldValue, newValue)
                 IN (IF oldValue # newValue /\ oldValue > 0
                        /\ isSignificantChange(change, pctT, valT)
                     THEN <<change>> ELSE <<>>)
                    \o
                    (IF oldShares # newShares
                     THEN <<ShareChange(e.key, oldShares, newShares, oldValue, newValue)>>
                     ELSE <<>>)
            ELSE <<>>
    IN Concat([i \in 1..Len(newPositions) |-> opened(newPositions[i])])
       \o Concat([i \in 1..Len(oldPositions) |-> closed(oldPositions[i])])
       \o Concat([i \in 1..Len(oldPositions) |-> changed(oldPositions[i])])

----------------------------------------------------------------------------
(* SpecDiff: detectChanges and the significance filter of fetchAndUpdate,  *)
(* on two families of snapshot pairs:                                      *)
(*   - up to MaxPos positions per snapshot over two symbols (the second    *)
(*     one carried by isin only), two partitions and up to two values;           *)
(*   - at most one position of one symbol per snapshot, over more          *)
(*     partitions, values, quantities and thresholds.                      *)

MaxPos == 2

LayoutPlaced ==
    [cat : {"equities", "crypto"},
     symbol : {"A"}, isin : {""},
     marketValue : {1000, 2000}, shares : {5}]
    \cup
    [cat : {"equities", "crypto"},
     symbol : {""}, isin : {"B"},
     marketValue : {1000}, shares : {5}]

SeqsUpTo(S, n) == UNION {[1..k -> S] : k \in 0..n}

LayoutSnapshots == {SnapshotOf(placed) : placed \in SeqsUpTo(LayoutPlaced, MaxPos)}

\* The new snapshot of a fetch cycle never fills bonds or cash
\* (transformToInternalFormat leaves them empty); the positions file read as
\* the old snapshot can: the shell workflow's transform_powens_data fills them.
SinglePlaced(cats) ==
    [cat : cats,
     symbol : {"A"}, isin : {""},
     marketValue : {0, 1000, 1200, 2000}, shares : {0, 5, 8}]

SingleOldSnapshots ==
    {SnapshotOf(placed) :
        placed \in SeqsUpTo(SinglePlaced({"equities", "funds", "crypto", "bonds"}), 1)}

SingleNewSnapshots ==
    {SnapshotOf(placed) :
        placed \in SeqsUpTo(SinglePlaced({"equities", "funds", "crypto"}), 1)}

InitDiff ==
    /\ CliUnused
    /\ BatchUnused
    /\ CallUnused
    /\ PriceUnused
    /\ DiscUnused
    /\ CycleUnused
    /\ pc = "detect"
    /\ \/ /\ oldData \in LayoutSnapshots
          /\ newData \in LayoutSnapshots
          /\ envPercent = Undefined
          /\ envValue = Undefined
       \/ /\ oldData \in SingleOldSnapshots
          /\ newData \in SingleNewSnapshots
          /\ envPercent \in {Undefined, Some(50)}
          /\ envValue \in {Undefined, Some(100)}
    /\ changes = <<>>
    /\ significantChanges = <<>>
    /\ SigUnused
    /\ NormUnused

\* fetchAndUpdate: const changes = this.detectChanges(previousData, newData)
DetectChanges ==
    /\ pc = "detect"
    /\ changes' = detectChanges(oldData, newData, percentThreshold, valueThreshold)
    /\ pc' = "filter"
    /\ UNCHANGED <<envVars, sigVars, normVars, oldData, newData, significantChanges, cycleVars, discVars, priceVars,
                   callVars, batchVars, cliVars>>

\* fetchAndUpdate: const significantChanges = changes.filter(isSignificantChange)
FilterSignificant ==
    /\ pc = "filter"
    /\ significantChanges' =
          SelectSeq(changes,
                    LAMBDA c : isSignificantChange(c, percentThreshold, valueThreshold))
    /\ pc' = "filtered"
    /\ UNCHANGED <<envVars, sigVars, normVars, oldData, newData, changes, cycleVars, discVars, priceVars,
                   callVars, batchVars, cliVars>>

NextDiff == DetectChanges \/ FilterSignificant

SpecDiff == InitDiff /\ [][NextDiff]_vars

----------------------------------------------------------------------------
(* Position normalizer: transformToInternalFormat *)

\* An absent string field of a raw record is "" (falsy, like undefined).

\* a plausible slip: the account number or webid tried before the IBAN
accountKey_numberBeforeIban(account) ==
    IF account.number # "" \/ account.webid # ""
    THEN (IF account.number # "" THEN account.number ELSE account.webid)
    ELSE IF account.iban # "" THEN account.iban
    ELSE account.original_name \o "-"
            \o (IF account.id_type # "" THEN account.id_type ELSE account.type)

\* Priority 1: IBAN; 2: account number or webid; 3: name + type
accountKey(account) ==
    IF account.iban # "" THEN account.iban
    ELSE IF account.number # "" \/ account.webid # ""
         THEN (IF account.number # "" THEN account.number ELSE account.webid)
    ELSE account.original_name \o "-"
            \o (IF account.id_type # "" THEN account.id_type ELSE account.type)

\* the deduplication loop: uniqueAccounts after the first i accounts
uniqueAccountsOf(accountsIn) ==
    LET f[i \in 0..Len(accountsIn)] ==
            IF i = 0 THEN <<>>
            ELSE IF \E k \in 1..Len(f[i - 1]) :
                        accountKey(f[i - 1][k]) = accountKey(accountsIn[i])
                 THEN f[i - 1]
                 ELSE Append(f[i - 1], accountsIn[i])
    IN f[Len(accountsIn)]

uniqueAccountIdsOf(accountsIn) ==
    {uniqueAccountsOf(accountsIn)[k].id : k \in 1..Len(uniqueAccountsOf(accountsIn))}

\* a plausible slip: the owning account of the row never looked at
isTrackedInvestment_anyAccount(inv, uniqueAccountIds) ==
    /\ inv.code_type = "ISIN"
    /\ inv.code # "XX-liquidity"
    /\ inv.valuation > 0

\* the filter of the extraction loop
isTrackedInvestment(inv, uniqueAccountIds) ==
    /\ inv.id_account \in uniqueAccountIds
    /\ inv.code_type = "ISIN"
    /\ inv.code # "XX-liquidity"
    /\ inv.valuation > 0

\* inv.stock_symbol || inv.code
investmentSymbol(inv) == IF inv.stock_symbol # "" THEN inv.stock_symbol ELSE inv.code

\* the Position pushed for one raw row
investmentPosition(inv) ==
    [symbol |-> investmentSymbol(inv),
     name |-> inv.label,
     shares |-> inv.quantity,
     currentPrice |-> Frac(inv.unitvalue, 1),
     marketValue |-> inv.valuation,
     costBasis |-> inv.quantity * inv.unitprice,
     unrealizedGainLoss |-> inv.diff,
     account |-> <<inv.id_account>>,
     isin |-> inv.code]

allInvestmentsOf(investments, uniqueAccountIds) ==
    LET f[i \in 0..Len(investments)] ==
            IF i = 0 THEN <<>>
            ELSE IF isTrackedInvestment(investments[i], uniqueAccountIds)
                 THEN Append(f[i - 1], investmentPosition(investments[i]))
                 ELSE f[i - 1]
    IN f[Len(investments)]

\* `${symbol}-${shares}-${marketValue}-${currentPrice}`: equal exactly when
\* the four components are (currentPrice is still the raw unit value here)
signature(inv) == <<inv.symbol, inv.shares, inv.marketValue, inv.currentPrice>>

\* "Remove exact duplicates first"
uniqueInvestmentsOf(allInvestments) ==
    LET f[i \in 0..Len(allInvestments)] ==
            IF i = 0 THEN <<>>
            ELSE IF \E k \in 1..Len(f[i - 1]) :
                        signature(f[i - 1][k]) = signature(allInvestments[i])
                 THEN f[i - 1]
                 ELSE Append(f[i - 1], allInvestments[i])
    IN f[Len(allInvestments)]

\* the consolidated position of an existing one and one more row
mergePosition(existing, inv) ==
    LET totalShares == existing.shares + inv.shares
        totalMarketValue == existing.marketValue + inv.marketValue
        totalCostBasis == existing.costBasis + inv.costBasis
    IN [existing EXCEPT
            !.shares = totalShares,
            !.marketValue = totalMarketValue,
            !.costBasis = totalCostBasis,
            !.currentPrice = IF totalShares > 0
                             THEN Frac(totalMarketValue, totalShares)
                             ELSE Frac(0, 1),
            !.unrealizedGainLoss = totalMarketValue - totalCostBasis,
            !.account = existing.account \o inv.account]

\* "Consolidate remaining positions by symbol": Object.values(consolidatedPositions)
consolidatedPositionsOf(uniqueInvestments) ==
    LET f[i \in 0..Len(uniqueInvestments)] ==
            IF i = 0 THEN <<>>
            ELSE LET inv == uniqueInvestments[i] IN
                 IF Has(f[i - 1], inv.symbol)
                 THEN Put(f[i - 1], inv.symbol, mergePosition(Get(f[i - 1], inv.symbol), inv))
                 ELSE Put(f[i - 1], inv.symbol, inv)
    IN [i \in 1..Len(f[Len(uniqueInvestments)]) |-> f[Len(uniqueInvestments)][i].pos]

\* A name is a sequence of characters.
upperCase == <<"A", "B", "C", "D", "E", "F", "G", "H", "I", "J", "K", "L", "M",
               "N", "O", "P", "Q", "R", "S", "T", "U", "V", "W", "X", "Y", "Z">>
lowerCase == <<"a", "b", "c", "d", "e", "f", "g", "h", "i", "j", "k", "l", "m",
               "n", "o", "p", "q", "r", "s", "t", "u", "v", "w", "x", "y", "z">>

toLowerCase(name) ==
    [i \in 1..Len(name) |->
        IF \E k \in 1..Len(upperCase) : upperCase[k] = name[i]
        THEN lowerCase[CHOOSE k \in 1..Len(upperCase) : upperCase[k] = name[i]]
        ELSE name[i]]

\* name.includes(term)
includes(name, term) ==
    \E i \in 0..(Len(name) - Len(term)) : SubSeq(name, i + 1, i + Len(term)) = term

\* the fallback patterns of loadCategorizationPatterns
patterns ==
    [real_estate |-> {<<"r", "e", "i", "t">>,
                      <<"r", "e", "a", "l", " ", "e", "s", "t", "a", "t", "e">>,
                      <<"p", "r", "o", "p", "e", "r", "t", "y">>},
     funds |-> {<<"e", "t", "f">>, <<"i", "n", "d", "e", "x">>, <<"f", "u", "n", "d">>},
     private_equity |-> {<<"p", "r", "i", "v", "a", "t", "e">>,
                         <<"p", "e", " ", "f", "u", "n", "d">>},
     private_debt |-> {<<"b", "o", "n", "d">>, <<"d", "e", "b", "t">>,
                       <<"c", "r", "e", "d", "i", "t">>},
     crowdfunding |-> {<<"c", "r", "o", "w", "d", "f", "u", "n", "d", "i", "n", "g">>,
                       <<"c", "r", "o", "w", "d">>}]

\* a plausible slip: the generic funds patterns tested before real_estate
categoryOf_fundsFirst(inv) ==
    LET nameLower == toLowerCase(inv.name)
        some(terms) == \E term \in terms : includes(nameLower, term)
    IN IF some(patterns.funds) THEN "funds"
       ELSE IF some(patterns.real_estate) THEN "real_estate"
       ELSE IF some(patterns.private_equity) THEN "private_equity"
       ELSE IF some(patterns.private_debt) THEN "private_debt"
       ELSE IF some(patterns.crowdfunding) THEN "crowdfunding"
       ELSE "equities"

\* the if / else-if chain of the categorization loop
categoryOf(inv) ==
    LET nameLower == toLowerCase(inv.name)
        some(terms) == \E term \in terms : includes(nameLower, term)
    IN IF some(patterns.real_estate) THEN "real_estate"
       ELSE IF some(patterns.funds) THEN "funds"
       ELSE IF some(patterns.private_equity) THEN "private_equity"
       ELSE IF some(patterns.private_debt) THEN "private_debt"
       ELSE IF some(patterns.crowdfunding) THEN "crowdfunding"
       ELSE "equities"

\* accounts.reduce((sum, account) => sum + (account.balance || 0), 0)
accountsTotalOf(accounts) ==
    LET f[i \in 0..Len(accounts)] ==
            IF i = 0 THEN 0 ELSE f[i - 1] + accounts[i].balance
    IN f[Len(accounts)]

transformToInternalFormat(accountsIn, investments) ==
    LET uniqueAccounts == uniqueAccountsOf(accountsIn)
        consolidated ==
            consolidatedPositionsOf(
                uniqueInvestmentsOf(
                    allInvestmentsOf(investments, uniqueAccountIdsOf(accountsIn))))
    IN [totalNetWorth |-> accountsTotalOf(uniqueAccounts),
        accounts |-> uniqueAccounts,
        positions |->
            [c \in AllCategories |->
                SelectSeq(consolidated, LAMBDA inv : categoryOf(inv) = c)]]

----------------------------------------------------------------------------
(* Crypto positions: SmartCryptoFetcher.fetchAllPositions and the          *)
(* attachment step of fetchAndUpdate                                       *)

\* Object.keys(this.config.chains) and each chain's nativeCurrency, as
\* data/crypto_config.json gives them
chainNames == <<"ethereum", "polygon">>
nativeCurrency ==
    [ethereum |-> [symbol |-> "ETH", name |-> "Ethereum"],
     polygon |-> [symbol |-> "MATIC", name |-> "Polygon"]]

\* parseFloat(process.env.ANALYSIS_MIN_POSITION_EUR || '100')
minPositionValue == 100

\* the tokens of WalletData: the native coin first, then the ERC-20 balances
\* that getAllTokensForWallet returned
fetchWalletData(chainName, answer) ==
    <<[symbol |-> nativeCurrency[chainName].symbol,
       name |-> nativeCurrency[chainName].name,
       balance |-> answer.nativeBalance,
       priceUsd |-> answer.nativePrice,
       valueUsd |-> answer.nativeBalance * answer.nativePrice,
       contractAddress |-> ""]>>
    \o answer.erc20Tokens

\* one CryptoPosition per token of positive value (there are no DeFi positions)
convertToPositions(address, chainName, tokens) ==
    LET kept == SelectSeq(tokens, LAMBDA token : token.valueUsd > 0)
    IN [i \in 1..Len(kept) |->
            [symbol |-> kept[i].symbol,
             name |-> kept[i].name,
             balance |-> kept[i].balance,
             currentPrice |-> kept[i].priceUsd,
             marketValue |-> kept[i].valueUsd,
             contractAddress |-> kept[i].contractAddress,
             chain |-> chainName,
             wallet |-> address]]

\* a plausible slip: one try around both loops, a failing unit ends the scan
fetchAllPositions_failFast(wallets, results) ==
    LET unit(w, c) ==
            convertToPositions(wallets[w], chainNames[c],
                               fetchWalletData(chainNames[c], results[w][c]))
        perWallet(w) == Concat([c \in 1..Len(chainNames) |-> unit(w, c)])
        allPositions == Concat([w \in 1..Len(wallets) |-> perWallet(w)])
    IN IF \E w \in 1..Len(wallets), c \in 1..Len(chainNames) : results[w][c].failed
       THEN <<>>
       ELSE SelectSeq(allPositions, LAMBDA pos : pos.marketValue >= minPositionValue)

\* the two nested loops, a (wallet, chain) unit whose fetchWalletData throws
\* (answer.failed) being skipped, then the minimum-value filter
fetchAllPositions(wallets, results) ==
    LET unit(w, c) ==
            IF results[w][c].failed THEN <<>>
            ELSE convertToPositions(wallets[w], chainNames[c],
                                    fetchWalletData(chainNames[c], results[w][c]))
        perWallet(w) == Concat([c \in 1..Len(chainNames) |-> unit(w, c)])
        allPositions == Concat([w \in 1..Len(wallets) |-> perWallet(w)])
    IN SelectSeq(allPositions, LAMBDA pos : pos.marketValue >= minPositionValue)

\* cryptoPositions.map(...) of fetchAndUpdate; the account string
\* `${chain}-${wallet.slice(0, 6)}...${wallet.slice(-4)}` is kept as a pair
convertedCryptoPosition(crypto) ==
    [symbol |-> crypto.symbol,
     name |-> crypto.name,
     shares |-> crypto.balance,
     currentPrice |-> Frac(crypto.currentPrice, 1),
     marketValue |-> crypto.marketValue,
     costBasis |-> crypto.marketValue,
     unrealizedGainLoss |-> 0,
     account |-> <<crypto.chain, crypto.wallet>>,
     isin |-> "",
     chain |-> crypto.chain,
     wallet |-> crypto.wallet,
     contractAddress |-> crypto.contractAddress]

marketValueSum(positions) ==
    LET f[i \in 0..Len(positions)] ==
            IF i = 0 THEN 0 ELSE f[i - 1] + positions[i].marketValue
    IN f[Len(positions)]

\* a plausible slip: the crypto positions stored, the total left as it was
withCryptoPositions_totalUntouched(data, cryptoPositions) ==
    [data EXCEPT
        !.positions.crypto =
            [i \in 1..Len(cryptoPositions) |-> convertedCryptoPosition(cryptoPositions[i])]]

\* newData.positions.crypto = ...; newData.totalNetWorth += ...
withCryptoPositions(data, cryptoPositions) ==
    [data EXCEPT
        !.positions.crypto =
            [i \in 1..Len(cryptoPositions) |-> convertedCryptoPosition(cryptoPositions[i])],
        !.totalNetWorth = data.totalNetWorth + marketValueSum(cryptoPositions)]

\* SmartCryptoFetcher.isCryptoConfigured
isCryptoConfigured == Len(cryptoWallets) > 0

----------------------------------------------------------------------------
(* SpecNorm: the part of a fetch cycle that builds the new snapshot, on    *)
(* four families of inputs:                                                *)
(*   - up to MaxAccounts accounts of every identifier shape, one row;      *)
(*   - three accounts (the third a duplicate of the first) and up to       *)
(*     MaxRows raw instrument rows;                                        *)
(*   - one account and up to MaxRows rows of instruments named in Names;   *)
(*   - one account, one row and up to MaxWallets crypto wallets.           *)

MaxAccounts == 2
MaxRows == 2
MaxWallets == 2

Account(id, shape) ==
    [id |-> id, iban |-> shape.iban, number |-> shape.number, webid |-> shape.webid,
     original_name |-> shape.original_name, id_type |-> shape.id_type,
     type |-> shape.type, balance |-> shape.balance]

AccountShapes ==
    [iban : {"", "K1"}, number : {"", "K1", "K2"}, webid : {"", "K2"},
     original_name : {"PEA"}, id_type : {"", "market"}, type : {"pea"},
     balance : {100}]

AccountLists ==
    {[i \in 1..Len(shapes) |-> Account(i, shapes[i])] :
        shapes \in SeqsUpTo(AccountShapes, MaxAccounts)}

Shape(iban, number) ==
    [iban |-> iban, number |-> number, webid |-> "", original_name |-> "PEA",
     id_type |-> "", type |-> "pea", balance |-> 100]

\* accounts 1 and 2 are distinct, account 3 is account 1 seen a second time
\* (with another balance in its second view)
ThreeAccounts ==
    <<Account(1, Shape("K1", "")),
      Account(2, [Shape("", "K2") EXCEPT !.balance = 250]),
      Account(3, [Shape("K1", "") EXCEPT !.balance = 40])>>

Instruments ==
    {[code_type |-> "ISIN", code |-> "US01", stock_symbol |-> "VTI",
      label |-> <<"E", "t", "f">>],
     [code_type |-> "ISIN", code |-> "FR02", stock_symbol |-> "",
      label |-> <<"A", "c", "m", "e">>],
     [code_type |-> "ISIN", code |-> "XX-liquidity", stock_symbol |-> "",
      label |-> <<"C", "a", "s", "h">>],
     [code_type |-> "OTHER", code |-> "US01", stock_symbol |-> "VTI",
      label |-> <<"E", "t", "f">>]}

Lots ==
    {[quantity |-> 5, unitvalue |-> 100, valuation |-> 500, unitprice |-> 90, diff |-> 50],
     [quantity |-> 3, unitvalue |-> 100, valuation |-> 300, unitprice |-> 90, diff |-> 30],
     [quantity |-> 2, unitvalue |-> 150, valuation |-> 300, unitprice |-> 100, diff |-> 100],
     [quantity |-> 4, unitvalue |-> 0, valuation |-> 0, unitprice |-> 0, diff |-> 0]}

Investment(id_account, instrument, lot) ==
    [id_account |-> id_account,
     code_type |-> instrument.code_type, code |-> instrument.code,
     stock_symbol |-> instrument.stock_symbol, label |-> instrument.label,
     quantity |-> lot.quantity, unitvalue |-> lot.unitvalue,
     valuation |-> lot.valuation, unitprice |-> lot.unitprice, diff |-> lot.diff]

InvestmentRows ==
    {Investment(a, instrument, lot) : a \in 1..3, instrument \in Instruments, lot \in Lots}

OneRow ==
    <<Investment(1,
        [code_type |-> "ISIN", code |-> "US01", stock_symbol |-> "VTI",
         label |-> <<"E", "t", "f">>],
        [quantity |-> 5, unitvalue |-> 100, valuation |-> 500, unitprice |-> 90,
         diff |-> 50])>>

\* display names for the categorization, one instrument per name
Names ==
    <<<<"R", "E", "I", "T", " ", "F", "u", "n", "d">>,
      <<"I", "n", "d", "e", "x", " ", "F", "u", "n", "d">>,
      <<"P", "e", " ", "F", "u", "n", "d">>,
      <<"P", "r", "i", "v", "a", "t", "e", " ", "C", "o">>,
      <<"B", "o", "n", "d">>,
      <<"D", "e", "b", "t", " ", "C", "r", "o", "w", "d">>,
      <<"C", "r", "o", "w", "d">>,
      <<"A", "c", "m", "e">>>>

NamedRows ==
    {Investment(1,
        [code_type |-> "ISIN", code |-> "ISIN" \o ToString(i), stock_symbol |-> "",
         label |-> Names[i]],
        [quantity |-> 5, unitvalue |-> 100, valuation |-> 500, unitprice |-> 90,
         diff |-> 50]) : i \in 1..Len(Names)}

usdc ==
    [symbol |-> "USDC", name |-> "USD Coin", balance |-> 200, priceUsd |-> 1,
     valueUsd |-> 200, contractAddress |-> "0xusdc"]

WalletAnswers ==
    {[failed |-> TRUE, nativeBalance |-> 0, nativePrice |-> 0, erc20Tokens |-> <<>>],
     [failed |-> FALSE, nativeBalance |-> 0, nativePrice |-> 500, erc20Tokens |-> <<>>],
     [failed |-> FALSE, nativeBalance |-> 1, nativePrice |-> 50, erc20Tokens |-> <<>>],
     [failed |-> FALSE, nativeBalance |-> 1, nativePrice |-> 500, erc20Tokens |-> <<>>],
     [failed |-> FALSE, nativeBalance |-> 1, nativePrice |-> 500, erc20Tokens |-> <<usdc>>]}

WalletLists ==
    {[i \in 1..n |-> "0xwallet" \o ToString(i)] : n \in 1..MaxWallets}

InitNorm ==
    /\ CliUnused
    /\ BatchUnused
    /\ CallUnused
    /\ PriceUnused
    /\ DiscUnused
    /\ CycleUnused
    /\ pc = "transform"
    /\ \/ /\ accountsData \in AccountLists
          /\ investmentsData = OneRow
          /\ cryptoWallets = <<>>
          /\ cryptoConfigLoads = FALSE
          /\ walletResults = <<>>
       \/ /\ accountsData = ThreeAccounts
          /\ investmentsData \in SeqsUpTo(InvestmentRows, MaxRows)
          /\ cryptoWallets = <<>>
          /\ cryptoConfigLoads = FALSE
          /\ walletResults = <<>>
       \/ /\ accountsData = <<Account(1, Shape("K1", ""))>>
          /\ investmentsData \in SeqsUpTo(NamedRows, MaxRows) \ {<<>>}
          /\ cryptoWallets = <<>>
          /\ cryptoConfigLoads = FALSE
          /\ walletResults = <<>>
       \/ /\ accountsData = <<Account(1, Shape("K1", ""))>>
          /\ investmentsData = OneRow
          /\ cryptoWallets \in WalletLists
          /\ cryptoConfigLoads \in BOOLEAN
          /\ walletResults \in
                IF cryptoConfigLoads
                THEN [1..Len(cryptoWallets) -> [1..Len(chainNames) -> WalletAnswers]]
                ELSE {<<>>}
    /\ newData = <<>>
    /\ oldData = <<>>
    /\ changes = <<>>
    /\ significantChanges = <<>>
    /\ envPercent = Undefined
    /\ envValue = Undefined
    /\ SigUnused

\* fetchAndUpdate: "No investment data received from API", return false
NoInvestmentData ==
    /\ pc = "transform"
    /\ Len(investmentsData) = 0
    /\ pc' = "failed"
    /\ UNCHANGED <<envVars, sigVars, diffVars, normVars, cycleVars, discVars, priceVars,
                   callVars, batchVars, cliVars>>

\* fetchAndUpdate: const newData = this.transformToInternalFormat(accounts, investments)
Transform ==
    /\ pc = "transform"
    /\ Len(investmentsData) > 0
    /\ newData' = transformToInternalFormat(accountsData, investmentsData)
    /\ pc' = "crypto"
    /\ UNCHANGED <<envVars, sigVars, normVars, oldData, changes, significantChanges, cycleVars, discVars, priceVars,
                   callVars, batchVars, cliVars>>

\* fetchAndUpdate: no crypto wallet configured
SkipCrypto ==
    /\ pc = "crypto"
    /\ ~isCryptoConfigured
    /\ pc' = "snapshot"
    /\ UNCHANGED <<envVars, sigVars, diffVars, normVars, cycleVars, discVars, priceVars,
                   callVars, batchVars, cliVars>>

\* fetchAndUpdate: the crypto positions are fetched and attached
AttachCrypto ==
    /\ pc = "crypto"
    /\ isCryptoConfigured
    /\ cryptoConfigLoads
    /\ newData' = withCryptoPositions(newData, fetchAllPositions(cryptoWallets, walletResults))
    /\ pc' = "snapshot"
    /\ UNCHANGED <<envVars, sigVars, normVars, oldData, changes, significantChanges, cycleVars, discVars, priceVars,
                   callVars, batchVars, cliVars>>

\* fetchAndUpdate: new SmartCryptoFetcher() throws, "Continue without crypto data"
CryptoUnavailable ==
    /\ pc = "crypto"
    /\ isCryptoConfigured
    /\ ~cryptoConfigLoads
    /\ pc' = "snapshot"
    /\ UNCHANGED <<envVars, sigVars, diffVars, normVars, cycleVars, discVars, priceVars,
                   callVars, batchVars, cliVars>>

NextNorm == NoInvestmentData \/ Transform \/ SkipCrypto \/ AttachCrypto \/ CryptoUnavailable

SpecNorm == InitNorm /\ [][NextNorm]_vars

----------------------------------------------------------------------------
(* Fetch cycle and ledger writer: OpenBankingFetcher.fetchAndUpdate and    *)
(* logToLedger, one action per await.  A cycle may be stopped between any  *)
(* two awaits (the process is killed or the caller cancels).  Crypto is    *)
(* not configured in this part, and the history snapshot (a file of its    *)
(* own, errors swallowed) is left out.                                     *)

\* the fetch cycles that may run on the same files
Writers == {1, 2}

\* what loadPreviousPositions returns when the positions file cannot be read
defaultPreviousData ==
    [totalNetWorth |-> 0, accounts |-> <<>>, positions |-> EmptyPositions]

loadPreviousPositions(file) ==
    IF file = Undefined THEN defaultPreviousData ELSE file[1]

\* summary: details.summary || {}, the counts of a data_collection entry
\* defaulting to 0
noSummary == [newPositions |-> 0, closedPositions |-> 0, significantMovements |-> 0]

\* a LedgerEntry: the run that wrote it, its phase and status, its symbol,
\* its summary
LedgerEntry(run, phase, status, symbol) ==
    [run |-> run, phase |-> phase, status |-> status, symbol |-> symbol,
     summary |-> noSummary]

\* the logToLedger calls of the loop over significantChanges, in order;
\* a share_change is logged by no branch
changeEntries(run, significant_) ==
    LET entryOf(change) ==
            IF change.type = "new"
            THEN <<LedgerEntry(run, "position_change", "opened", change.symbol)>>
            ELSE IF change.type = "closed"
            THEN <<LedgerEntry(run, "position_change", "closed", change.symbol)>>
            ELSE IF change.type = "value_change"
            THEN <<LedgerEntry(run, "price_update", "significant", change.symbol)>>
            ELSE <<>>
    IN Concat([i \in 1..Len(significant_) |-> entryOf(significant_[i])])

completedEntry(run) == LedgerEntry(run, "data_collection", "completed", "")

\* a plausible slip: every change counted as a significant movement
summaryOf_everyChange(detected, significant_) ==
    [newPositions |-> Len(SelectSeq(detected, LAMBDA c : c.type = "new")),
     closedPositions |-> Len(SelectSeq(detected, LAMBDA c : c.type = "closed")),
     significantMovements |-> Len(detected)]

\* the summary of the 'completed' entry of fetchAndUpdate
summaryOf(detected, significant_) ==
    [newPositions |-> Len(SelectSeq(detected, LAMBDA c : c.type = "new")),
     closedPositions |-> Len(SelectSeq(detected, LAMBDA c : c.type = "closed")),
     significantMovements |-> Len(significant_)]

completedWith(run, detected, significant_) ==
    [completedEntry(run) EXCEPT !.summary = summaryOf(detected, significant_)]
failedEntry(run) == LedgerEntry(run, "data_collection", "failed", "")

\* what the banking API answers when it can be reached
bankAccounts == <<Account(1, Shape("K1", ""))>>
bankInvestments == OneRow

\* the snapshot of an earlier cycle: the same instrument, 3 units worth 300
earlierSnapshot ==
    transformToInternalFormat(bankAccounts,
        <<[OneRow[1] EXCEPT !.quantity = 3, !.valuation = 300, !.diff = 30]>>)

\* other snapshots of earlier cycles: the one the banking API gives again,
\* another instrument, and the same instrument as 2 units worth 1500
earlierSnapshots ==
    {earlierSnapshot,
     transformToInternalFormat(bankAccounts, bankInvestments),
     transformToInternalFormat(bankAccounts,
        <<[OneRow[1] EXCEPT !.code = "FR02", !.stock_symbol = "",
                            !.label = <<"A", "c", "m", "e">>]>>),
     transformToInternalFormat(bankAccounts,
        <<[OneRow[1] EXCEPT !.quantity = 2, !.unitvalue = 750, !.valuation = 1500,
                            !.diff = 0]>>)}

\* the locals of a cycle that has not started; faults, logged and handed
\* record what went wrong, which entries logToLedger wrote without error and
\* which entries it was called with
idleCycle ==
    [pc |-> "idle", previousData |-> Undefined, accounts |-> <<>>,
     newData |-> Undefined, pending |-> <<>>, after |-> "",
     ledger |-> <<>>, result |-> "", faults |-> {}, logged |-> <<>>,
     changes |-> <<>>, significantChanges |-> <<>>, handed |-> <<>>]

InitCycle ==
    /\ CliUnused
    /\ BatchUnused
    /\ CallUnused
    /\ PriceUnused
    /\ DiscUnused
    /\ pc = "cycle"
    /\ ledgerFile \in {<<>>, <<completedEntry(0)>>}
    /\ positionsFile \in {Undefined} \cup {Some(s) : s \in earlierSnapshots}
    /\ \E active \in (SUBSET Writers) \ {{}} :
          cycle = [w \in Writers |->
                      IF w \in active THEN [idleCycle EXCEPT !.pc = "load"]
                      ELSE idleCycle]
    /\ envPercent = Undefined
    /\ envValue = Undefined
    /\ SigUnused
    /\ DiffUnused
    /\ NormUnused

\* const previousData = await this.loadPreviousPositions(positionsFile)
LoadPrevious(w) ==
    /\ cycle[w].pc = "load"
    /\ cycle' = [cycle EXCEPT ![w].previousData = Some(loadPreviousPositions(positionsFile)),
                              ![w].pc = "auth"]
    /\ UNCHANGED <<pc, envVars, sigVars, diffVars, normVars, ledgerFile, positionsFile, discVars, priceVars,
                   callVars, batchVars, cliVars>>

\* if (!(await this.authenticate())) { logToLedger(... 'failed' ...); return false }
Authenticate(w) ==
    /\ cycle[w].pc = "auth"
    /\ \E ok \in BOOLEAN :
          cycle' = IF ok
                   THEN [cycle EXCEPT ![w].pc = "accounts"]
                   ELSE [cycle EXCEPT ![w].faults = @ \cup {"auth"},
                                      ![w].pending = <<failedEntry(w)>>,
                                      ![w].after = "false",
                                      ![w].pc = "ledgerRead"]
    /\ UNCHANGED <<pc, envVars, sigVars, diffVars, normVars, ledgerFile, positionsFile, discVars, priceVars,
                   callVars, batchVars, cliVars>>

\* const accounts = await this.fetchAccounts(): [] when the request fails
FetchAccounts(w) ==
    /\ cycle[w].pc = "accounts"
    /\ \E ok \in BOOLEAN :
          cycle' = IF ok
                   THEN [cycle EXCEPT ![w].accounts = bankAccounts,
                                      ![w].pc = "investments"]
                   ELSE [cycle EXCEPT ![w].faults = @ \cup {"accounts"},
                                      ![w].accounts = <<>>,
                                      ![w].pc = "investments"]
    /\ UNCHANGED <<pc, envVars, sigVars, diffVars, normVars, ledgerFile, positionsFile, discVars, priceVars,
                   callVars, batchVars, cliVars>>

\* the run of fetchAndUpdate from the answer of fetchInvestments to the first
\* logToLedger: the empty-answer abort, or transformToInternalFormat,
\* detectChanges and the significance filter
computed(w, investments) ==
    LET new == transformToInternalFormat(cycle[w].accounts, investments)
        detected == detectChanges(cycle[w].previousData[1], new,
                                  percentThreshold, valueThreshold)
        significant_ ==
            SelectSeq(detected,
                      LAMBDA c : isSignificantChange(c, percentThreshold, valueThreshold))
    IN [cycle[w] EXCEPT !.newData = Some(new),
                        !.changes = detected,
                        !.significantChanges = significant_,
                        !.pending = changeEntries(w, significant_)
                                    \o <<completedWith(w, detected, significant_)>>,
                        !.after = "write",
                        !.pc = "ledgerRead"]

\* const investments = await this.fetchInvestments(): { investments: [] }
\* when the request fails
FetchInvestments(w) ==
    /\ cycle[w].pc = "investments"
    /\ \E ok \in BOOLEAN :
          cycle' = IF ok
                   THEN [cycle EXCEPT ![w] = computed(w, bankInvestments)]
                   ELSE [cycle EXCEPT ![w].faults = @ \cup {"investments"},
                                      ![w].pending = <<failedEntry(w)>>,
                                      ![w].after = "false",
                                      ![w].pc = "ledgerRead"]
    /\ UNCHANGED <<pc, envVars, sigVars, diffVars, normVars, ledgerFile, positionsFile, discVars, priceVars,
                   callVars, batchVars, cliVars>>

\* logToLedger: ledger = pathExists ? await fs.readJSON(ledgerFile) : { entries: [] }
LedgerRead(w) ==
    /\ cycle[w].pc = "ledgerRead"
    /\ cycle' = [cycle EXCEPT ![w].ledger = ledgerFile,
                              ![w].handed = Append(@, Head(cycle[w].pending)),
                              ![w].pc = "ledgerWrite"]
    /\ UNCHANGED <<pc, envVars, sigVars, diffVars, normVars, ledgerFile, positionsFile, discVars, priceVars,
                   callVars, batchVars, cliVars>>

\* a plausible slip: the new entry put in front (unshift for push)
push_inFront(entries, newEntry) == <<newEntry>> \o entries

\* ledger.entries.push(newEntry)
push(entries, newEntry) == Append(entries, newEntry)

\* where a cycle goes on after a logToLedger call
afterLog(c) ==
    IF Len(c.pending) > 1 THEN [c EXCEPT !.pending = Tail(@), !.pc = "ledgerRead"]
    ELSE IF c.after = "write" THEN [c EXCEPT !.pending = <<>>, !.pc = "positionsWrite"]
    ELSE [c EXCEPT !.pending = <<>>, !.pc = "done", !.result = "false"]

\* logToLedger: ledger.entries.push(newEntry); await fs.writeJSON(ledgerFile, ledger);
\* an error is caught and printed
LedgerWrite(w) ==
    /\ cycle[w].pc = "ledgerWrite"
    /\ \E ok \in BOOLEAN :
          IF ok
          THEN /\ ledgerFile' = push(cycle[w].ledger, Head(cycle[w].pending))
               /\ cycle' = [cycle EXCEPT
                               ![w] = afterLog([cycle[w] EXCEPT
                                          !.logged = Append(@, Head(cycle[w].pending))])]
          ELSE /\ ledgerFile' = ledgerFile
               /\ cycle' = [cycle EXCEPT
                               ![w] = afterLog([cycle[w] EXCEPT !.faults = @ \cup {"ledger"}])]
    /\ UNCHANGED <<pc, envVars, sigVars, diffVars, normVars, positionsFile, discVars, priceVars,
                   callVars, batchVars, cliVars>>

\* await fs.writeJSON(positionsFile, newData); ...; return true
\* (a failed write rejects the promise of fetchAndUpdate)
PositionsWrite(w) ==
    /\ cycle[w].pc = "positionsWrite"
    /\ \E ok \in BOOLEAN :
          IF ok
          THEN /\ positionsFile' = cycle[w].newData
               /\ cycle' = [cycle EXCEPT ![w].pc = "done", ![w].result = "true"]
          ELSE /\ positionsFile' = positionsFile
               /\ cycle' = [cycle EXCEPT ![w].faults = @ \cup {"positions"},
                                         ![w].pc = "done", ![w].result = "error"]
    /\ UNCHANGED <<pc, envVars, sigVars, diffVars, normVars, ledgerFile, discVars, priceVars,
                   callVars, batchVars, cliVars>>

\* the cycle is cancelled, or its process killed, between two awaits
Stop(w) ==
    /\ cycle[w].pc \notin {"idle", "done", "stopped"}
    /\ cycle' = [cycle EXCEPT ![w].pc = "stopped"]
    /\ UNCHANGED <<pc, envVars, sigVars, diffVars, normVars, ledgerFile, positionsFile, discVars, priceVars,
                   callVars, batchVars, cliVars>>

NextCycle ==
    \E w \in Writers :
        \/ LoadPrevious(w)
        \/ Authenticate(w)
        \/ FetchAccounts(w)
        \/ FetchInvestments(w)
        \/ LedgerRead(w)
        \/ LedgerWrite(w)
        \/ PositionsWrite(w)
        \/ Stop(w)

SpecCycle == InitCycle /\ [][NextCycle]_vars

----------------------------------------------------------------------------
(* Token discovery: SmartCryptoFetcher.getAllTokensForWallet with          *)
(* discoverTokens and researchToken, for one wallet on one chain, over     *)
(* several runs.  The Token Registry is config.tokenDatabase; saveConfig   *)
(* succeeds, so that the registry of a run is the one the next run loads.  *)
(* A contract address is its hexadecimal digits and whether it is written  *)
(* with upper-case digits.                                                 *)

MaxTransfers == 4
MaxRuns == 2

Address(hex, upper) == [hex |-> hex, upper |-> upper]

\* address.toLowerCase()
addressToLowerCase(address) == [address EXCEPT !.upper = FALSE]

scanChain == "ethereum"

\* config.knownTokens[chainName]
knownTokens == <<[address |-> Address("fee", TRUE), symbol |-> "USDC"]>>

\* the contracts the wallet has a non-zero balance of, worth minValueUsd or more
heldContracts == {"fee", "abc"}

\* `${chainName}:${address}`
cacheKey(chainName, address) == <<chainName, address>>

\* a plausible slip: the cached metadata never looked up
Cached_never(database, key) == FALSE

\* this.config.tokenDatabase[cacheKey] is set
Cached(database, key) == \E metadata \in database : metadata.key = key

\* this.config.tokenDatabase[cacheKey] = metadata
withMetadata(database, metadata) ==
    {m \in database : m.key # metadata.key} \cup {metadata}

\* the tokenMap loop of discoverTokens over the transfer events the explorer
\* returned: one DiscoveredToken per lower-cased contract address, in the
\* order of first occurrence
discoverTokens(transfers) ==
    LET f[i \in 0..Len(transfers)] ==
            IF i = 0 THEN <<>>
            ELSE LET tokenAddress == addressToLowerCase(transfers[i])
                     tokenMap == f[i - 1]
                 IN IF \E k \in 1..Len(tokenMap) : tokenMap[k].address = tokenAddress
                    THEN [k \in 1..Len(tokenMap) |->
                            IF tokenMap[k].address = tokenAddress
                            THEN [tokenMap[k] EXCEPT !.transactionCount = @ + 1]
                            ELSE tokenMap[k]]
                    ELSE Append(tokenMap, [address |-> tokenAddress, transactionCount |-> 1])
    IN f[Len(transfers)]

\* a plausible slip: the addresses compared as they are written
alreadyKnown_caseSensitive(discovered) ==
    \E k \in 1..Len(knownTokens) : knownTokens[k].address = discovered.address

\* knownTokens.some(kt => kt.address.toLowerCase() === discovered.address.toLowerCase())
alreadyKnown(discovered) ==
    \E k \in 1..Len(knownTokens) :
        addressToLowerCase(knownTokens[k].address) = addressToLowerCase(discovered.address)

\* a plausible slip: only a token found by the symbol lookup is cached
researched_onlyVerified(database, tokenAddress, readsAnswer, found) ==
    IF found
    THEN withMetadata(database,
            [key |-> cacheKey(scanChain, tokenAddress),
             symbol |-> IF readsAnswer THEN "TKN" ELSE "UNKNOWN",
             verified |-> found])
    ELSE database

\* the tokenDatabase after researchToken: the symbol read on chain or the
\* default 'UNKNOWN', verified when the symbol lookup found an identifier
researched(database, tokenAddress, readsAnswer, found) ==
    withMetadata(database,
        [key |-> cacheKey(scanChain, tokenAddress),
         symbol |-> IF readsAnswer THEN "TKN" ELSE "UNKNOWN",
         verified |-> found])

\* getTokenBalance: the TokenBalance of a held contract, nothing otherwise
balanceOf(address) ==
    IF address.hex \in heldContracts THEN <<[contractAddress |-> address]>> ELSE <<>>

\* the transfer events the explorer can report for the wallet
TransferAddresses ==
    {Address("abc", FALSE), Address("abc", TRUE), Address("def", TRUE), Address("fee", FALSE)}

\* the registry left by earlier runs
EarlierDatabases ==
    {{},
     {[key |-> cacheKey(scanChain, Address("abc", FALSE)), symbol |-> "ABC", verified |-> TRUE]},
     {[key |-> cacheKey(scanChain, Address("abc", FALSE)), symbol |-> "UNKNOWN",
       verified |-> FALSE]}}

InitDisc ==
    /\ CliUnused
    /\ BatchUnused
    /\ CallUnused
    /\ PriceUnused
    /\ pc = "scan"
    /\ tokenDatabase \in EarlierDatabases
    /\ \E transfers \in SeqsUpTo(TransferAddresses, MaxTransfers) :
          scan = [pc |-> "known", run |-> 1, transfers |-> transfers,
                  discovered |-> <<>>, next |-> 1, tokens |-> <<>>, served |-> {}]
    /\ researchLog = <<>>
    /\ envPercent = Undefined
    /\ envValue = Undefined
    /\ SigUnused
    /\ DiffUnused
    /\ NormUnused
    /\ CycleUnused

\* 1. Check known tokens first (fast path)
CheckKnownTokens ==
    /\ scan.pc = "known"
    /\ scan' = [scan EXCEPT
                   !.tokens = Concat([k \in 1..Len(knownTokens) |->
                                         balanceOf(knownTokens[k].address)]),
                   !.pc = "discover"]
    /\ UNCHANGED <<pc, envVars, sigVars, diffVars, normVars, cycleVars,
                   tokenDatabase, researchLog, priceVars, callVars, batchVars, cliVars>>

\* 2. const discoveredTokens = await this.discoverTokens(walletAddress, chainName):
\* [] when the explorer does not answer or reports no transaction
DiscoverTokens ==
    /\ scan.pc = "discover"
    /\ \E answers \in BOOLEAN :
          scan' = [scan EXCEPT
                      !.discovered = IF answers THEN discoverTokens(scan.transfers) ELSE <<>>,
                      !.next = 1,
                      !.pc = "resolve"]
    /\ UNCHANGED <<pc, envVars, sigVars, diffVars, normVars, cycleVars,
                   tokenDatabase, researchLog, priceVars, callVars, batchVars, cliVars>>

\* if (alreadyKnown) continue
SkipKnownToken ==
    /\ scan.pc = "resolve"
    /\ scan.next <= Len(scan.discovered)
    /\ alreadyKnown(scan.discovered[scan.next])
    /\ scan' = [scan EXCEPT !.next = @ + 1]
    /\ UNCHANGED <<pc, envVars, sigVars, diffVars, normVars, cycleVars,
                   tokenDatabase, researchLog, priceVars, callVars, batchVars, cliVars>>

\* let metadata = this.config.tokenDatabase[cacheKey]: set, no research
ServeFromDatabase ==
    /\ scan.pc = "resolve"
    /\ scan.next <= Len(scan.discovered)
    /\ ~alreadyKnown(scan.discovered[scan.next])
    /\ LET discovered == scan.discovered[scan.next]
       IN /\ Cached(tokenDatabase, cacheKey(scanChain, discovered.address))
          /\ scan' = [scan EXCEPT
                         !.tokens = @ \o balanceOf(discovered.address),
                         !.served = @ \cup {discovered.address},
                         !.next = @ + 1]
    /\ UNCHANGED <<pc, envVars, sigVars, diffVars, normVars, cycleVars,
                   tokenDatabase, researchLog, priceVars, callVars, batchVars, cliVars>>

\* if (!metadata) { const researched = await this.researchToken(...) }
ResearchToken ==
    /\ scan.pc = "resolve"
    /\ scan.next <= Len(scan.discovered)
    /\ ~alreadyKnown(scan.discovered[scan.next])
    /\ LET discovered == scan.discovered[scan.next]
       IN /\ ~Cached(tokenDatabase, cacheKey(scanChain, discovered.address))
          /\ \E readsAnswer \in BOOLEAN, found \in BOOLEAN :
                tokenDatabase' =
                    researched(tokenDatabase, discovered.address, readsAnswer, found)
          /\ researchLog' = Append(researchLog, [run |-> scan.run,
                                                  address |-> discovered.address])
          /\ scan' = [scan EXCEPT
                         !.tokens = @ \o balanceOf(discovered.address),
                         !.next = @ + 1]
    /\ UNCHANGED <<pc, envVars, sigVars, diffVars, normVars, cycleVars, priceVars, callVars,
                   batchVars, cliVars>>

\* return tokens
ReturnTokens ==
    /\ scan.pc = "resolve"
    /\ scan.next > Len(scan.discovered)
    /\ scan' = [scan EXCEPT !.pc = "returned"]
    /\ UNCHANGED <<pc, envVars, sigVars, diffVars, normVars, cycleVars,
                   tokenDatabase, researchLog, priceVars, callVars, batchVars, cliVars>>

\* the next fetch cycle scans the same wallet again
NextRun ==
    /\ scan.pc = "returned"
    /\ scan.run < MaxRuns
    /\ scan' = [scan EXCEPT !.run = @ + 1, !.pc = "known", !.discovered = <<>>,
                            !.next = 1, !.tokens = <<>>, !.served = {}]
    /\ UNCHANGED <<pc, envVars, sigVars, diffVars, normVars, cycleVars,
                   tokenDatabase, researchLog, priceVars, callVars, batchVars, cliVars>>

NextDisc ==
    \/ CheckKnownTokens
    \/ DiscoverTokens
    \/ SkipKnownToken
    \/ ServeFromDatabase
    \/ ResearchToken
    \/ ReturnTokens
    \/ NextRun

SpecDisc == InitDisc /\ [][NextDisc]_vars

----------------------------------------------------------------------------
(* Price cache: SmartCryptoFetcher.getTokenPrice, called by getTokenBalance *)

\* the clock advances by half hours, at most MaxTicks times
MaxTicks == 4
HalfHour == (60 * 60 * 1000) \div 2

\* const cacheKey = coingeckoId || symbol.toLowerCase(): an empty identifier
\* is falsy
priceKey(symbol, coingeckoId) ==
    IF coingeckoId # Undefined /\ coingeckoId[1] # <<>>
    THEN coingeckoId[1]
    ELSE toLowerCase(symbol)

\* a plausible slip: an entry as old as the window still served
cacheIsFresh_upToWindow(cached, now, expiryHours) ==
    /\ cached # Undefined
    /\ now - cached[1].timestamp <= expiryHours * 60 * 60 * 1000

\* if (cached) { ... if (cacheAge < maxAge) return cached.price }
cacheIsFresh(cached, now, expiryHours) ==
    /\ cached # Undefined
    /\ now - cached[1].timestamp < expiryHours * 60 * 60 * 1000

\* the try branch: const price = response.data[coinId]?.usd || 0, cached with
\* the time of the answer
getTokenPrice_answered(cache, key, usd, now) ==
    LET price == IF Truthy(usd) THEN usd[1] ELSE 0
    IN [price |-> price,
        cache |-> [cache EXCEPT ![key] = Some([price |-> price, timestamp |-> now])]]

\* a plausible slip: the failure cached as a price of 0
getTokenPrice_failed_storesZero(cache, key, now) ==
    [price |-> 0,
     cache |-> [cache EXCEPT ![key] = Some([price |-> 0, timestamp |-> now])]]

\* the catch branch: return 0, nothing written
getTokenPrice_failed(cache, key, now) ==
    [price |-> 0, cache |-> cache]

\* the TokenBalance getTokenBalance returns
TokenBalance(tokenInfo, price) ==
    [symbol |-> tokenInfo.symbol, balance |-> tokenInfo.balance,
     priceUsd |-> price, valueUsd |-> tokenInfo.balance * price]

\* the tokens a scan resolves: their symbol, their coingeckoId and the
\* balance the contract reports
PricedTokens ==
    {[symbol |-> <<"U", "S", "D", "C">>, coingeckoId |-> Some(<<"usd-coin">>), balance |-> 200],
     [symbol |-> <<"A", "B", "C">>, coingeckoId |-> Undefined, balance |-> 50],
     [symbol |-> <<"a", "b", "c">>, coingeckoId |-> Some(<<>>), balance |-> 7]}

PriceKeys == {priceKey(t.symbol, t.coingeckoId) : t \in PricedTokens}

CachedPrices ==
    {Undefined} \cup {Some([price |-> 3, timestamp |-> t]) : t \in {0, 2 * HalfHour}}

InitPrice ==
    /\ CliUnused
    /\ BatchUnused
    /\ CallUnused
    /\ SigUnused
    /\ DiffUnused
    /\ NormUnused
    /\ CycleUnused
    /\ DiscUnused
    /\ pc = "price"
    /\ envPercent = Undefined
    /\ envValue = Undefined
    /\ priceCache \in [PriceKeys -> CachedPrices]
    /\ clock = 0
    /\ cacheExpiryHours \in {0, 1}
    /\ \E first \in PricedTokens, second \in PricedTokens :
          /\ first # second
          /\ pricing = [pc |-> "token", tokens |-> <<first, second>>, next |-> 1,
                        results |-> <<>>, lookups |-> <<>>]

\* time passes
Tick ==
    /\ pricing.pc # "returned"
    /\ clock < MaxTicks * HalfHour
    /\ clock' = clock + HalfHour
    /\ UNCHANGED <<pc, envVars, sigVars, diffVars, normVars, cycleVars, discVars,
                   priceCache, cacheExpiryHours, pricing, callVars, batchVars, cliVars>>

\* getTokenBalance: balanceOf fails or reports 0, the result is null
BalanceUnavailable ==
    /\ pricing.pc = "token"
    /\ pricing.next <= Len(pricing.tokens)
    /\ pricing' = [pricing EXCEPT !.results = Append(@, Undefined), !.next = @ + 1]
    /\ UNCHANGED <<pc, envVars, sigVars, diffVars, normVars, cycleVars, discVars,
                   priceCache, clock, cacheExpiryHours, callVars, batchVars, cliVars>>

\* getTokenBalance reads a balance and calls getTokenPrice, which returns the
\* cached price
PriceFromCache ==
    /\ pricing.pc = "token"
    /\ pricing.next <= Len(pricing.tokens)
    /\ LET tokenInfo == pricing.tokens[pricing.next]
           key == priceKey(tokenInfo.symbol, tokenInfo.coingeckoId)
           cached == priceCache[key]
       IN /\ cacheIsFresh(cached, clock, cacheExpiryHours)
          /\ pricing' = [pricing EXCEPT
                            !.results = Append(@, Some(TokenBalance(tokenInfo, cached[1].price))),
                            !.lookups = Append(@, [token |-> pricing.next, key |-> key,
                                                   at |-> clock, cached |-> cached,
                                                   outcome |-> "cached",
                                                   price |-> cached[1].price,
                                                   cachedAfter |-> cached]),
                            !.next = @ + 1]
    /\ UNCHANGED <<pc, envVars, sigVars, diffVars, normVars, cycleVars, discVars,
                   priceCache, clock, cacheExpiryHours, callVars, batchVars, cliVars>>

\* getTokenBalance reads a balance and calls getTokenPrice, which asks the
\* pricing source: await axios.get(...)
PriceRequested ==
    /\ pricing.pc = "token"
    /\ pricing.next <= Len(pricing.tokens)
    /\ LET tokenInfo == pricing.tokens[pricing.next]
           key == priceKey(tokenInfo.symbol, tokenInfo.coingeckoId)
           cached == priceCache[key]
       IN /\ ~cacheIsFresh(cached, clock, cacheExpiryHours)
          /\ pricing' = [pricing EXCEPT
                            !.lookups = Append(@, [token |-> pricing.next, key |-> key,
                                                   at |-> clock, cached |-> cached,
                                                   outcome |-> "requested",
                                                   price |-> 0,
                                                   cachedAfter |-> cached]),
                            !.pc = "fetching"]
    /\ UNCHANGED <<pc, envVars, sigVars, diffVars, normVars, cycleVars, discVars,
                   priceCache, clock, cacheExpiryHours, callVars, batchVars, cliVars>>

\* the pricing source answers, with or without a price for the coin
PriceAnswered ==
    /\ pricing.pc = "fetching"
    /\ \E usd \in {Undefined, Some(2)} :
          LET tokenInfo == pricing.tokens[pricing.next]
              key == priceKey(tokenInfo.symbol, tokenInfo.coingeckoId)
              got == getTokenPrice_answered(priceCache, key, usd, clock)
          IN /\ priceCache' = got.cache
             /\ pricing' = [pricing EXCEPT
                               !.results = Append(@, Some(TokenBalance(tokenInfo, got.price))),
                               !.lookups[Len(pricing.lookups)].outcome = "answered",
                               !.lookups[Len(pricing.lookups)].price = got.price,
                               !.lookups[Len(pricing.lookups)].cachedAfter = got.cache[key],
                               !.next = @ + 1,
                               !.pc = "token"]
    /\ UNCHANGED <<pc, envVars, sigVars, diffVars, normVars, cycleVars, discVars,
                   clock, cacheExpiryHours, callVars, batchVars, cliVars>>

\* the request fails or times out
PriceFailed ==
    /\ pricing.pc = "fetching"
    /\ LET tokenInfo == pricing.tokens[pricing.next]
           key == priceKey(tokenInfo.symbol, tokenInfo.coingeckoId)
           got == getTokenPrice_failed(priceCache, key, clock)
       IN /\ priceCache' = got.cache
          /\ pricing' = [pricing EXCEPT
                            !.results = Append(@, Some(TokenBalance(tokenInfo, got.price))),
                            !.lookups[Len(pricing.lookups)].outcome = "failed",
                            !.lookups[Len(pricing.lookups)].price = got.price,
                            !.lookups[Len(pricing.lookups)].cachedAfter = got.cache[key],
                            !.next = @ + 1,
                            !.pc = "token"]
    /\ UNCHANGED <<pc, envVars, sigVars, diffVars, normVars, cycleVars, discVars,
                   clock, cacheExpiryHours, callVars, batchVars, cliVars>>

\* every token of the scan resolved
PricingReturns ==
    /\ pricing.pc = "token"
    /\ pricing.next > Len(pricing.tokens)
    /\ pricing' = [pricing EXCEPT !.pc = "returned"]
    /\ UNCHANGED <<pc, envVars, sigVars, diffVars, normVars, cycleVars, discVars,
                   priceCache, clock, cacheExpiryHours, callVars, batchVars, cliVars>>

NextPrice ==
    \/ Tick
    \/ BalanceUnavailable
    \/ PriceFromCache
    \/ PriceRequested
    \/ PriceAnswered
    \/ PriceFailed
    \/ PricingReturns

SpecPrice == InitPrice /\ [][NextPrice]_vars

----------------------------------------------------------------------------
(* External calls of the crypto scan: the awaits of one (wallet, chain)    *)
(* unit of fetchAllPositions, in the order the code reaches them, for a    *)
(* wallet with one known token and one discovered token that is not in the *)
(* token database.  A collaborator answers, fails, or stays silent.        *)

\* each call: the client it goes through, the timeout the code passes (axios
\* without a timeout option waits without limit), and the call that follows
\* when it fails
externalCalls ==
    <<[name |-> "getBalance", via |-> "provider", timeout |-> Undefined, onFailure |-> 10],
      [name |-> "nativePrice", via |-> "axios", timeout |-> Some(10000), onFailure |-> 3],
      [name |-> "knownBalanceOf", via |-> "provider", timeout |-> Undefined, onFailure |-> 5],
      [name |-> "knownPrice", via |-> "axios", timeout |-> Some(10000), onFailure |-> 5],
      [name |-> "transactionHistory", via |-> "axios", timeout |-> Some(10000), onFailure |-> 10],
      [name |-> "symbolNameDecimals", via |-> "provider", timeout |-> Undefined, onFailure |-> 7],
      [name |-> "symbolSearch", via |-> "axios", timeout |-> Undefined, onFailure |-> 8],
      [name |-> "balanceOf", via |-> "provider", timeout |-> Undefined, onFailure |-> 10],
      [name |-> "price", via |-> "axios", timeout |-> Some(10000), onFailure |-> 10]>>

\* whether a call that is never answered is given up: the timeout option for
\* axios, the provider's own request timeout for an on-chain read
bounded(call) ==
    IF call.via = "axios" THEN call.timeout # Undefined ELSE rpcBounded

InitCalls ==
    /\ CliUnused
    /\ BatchUnused
    /\ SigUnused
    /\ DiffUnused
    /\ NormUnused
    /\ CycleUnused
    /\ DiscUnused
    /\ PriceUnused
    /\ pc = "calls"
    /\ envPercent = Undefined
    /\ envValue = Undefined
    /\ rpcBounded \in BOOLEAN
    /\ calls = [pc |-> "calling", next |-> 1, outcomes |-> <<>>]

\* the collaborator answers
CallAnswers ==
    /\ calls.pc = "calling"
    /\ calls.next <= Len(externalCalls)
    /\ calls' = [calls EXCEPT
                    !.outcomes = Append(@, [call |-> calls.next, outcome |-> "answered"]),
                    !.next = @ + 1]
    /\ UNCHANGED <<pc, envVars, sigVars, diffVars, normVars, cycleVars, discVars,
                   priceVars, rpcBounded, batchVars, cliVars>>

\* the collaborator answers with an error: the catch of the call absorbs it
CallFails ==
    /\ calls.pc = "calling"
    /\ calls.next <= Len(externalCalls)
    /\ calls' = [calls EXCEPT
                    !.outcomes = Append(@, [call |-> calls.next, outcome |-> "failed"]),
                    !.next = externalCalls[calls.next].onFailure]
    /\ UNCHANGED <<pc, envVars, sigVars, diffVars, normVars, cycleVars, discVars,
                   priceVars, rpcBounded, batchVars, cliVars>>

\* the collaborator never answers: the await stays pending
CallSilent ==
    /\ calls.pc = "calling"
    /\ calls.next <= Len(externalCalls)
    /\ calls' = [calls EXCEPT !.pc = "waiting"]
    /\ UNCHANGED <<pc, envVars, sigVars, diffVars, normVars, cycleVars, discVars,
                   priceVars, rpcBounded, batchVars, cliVars>>

\* the timeout of the pending call fires: handled as a failure
TimeoutFires ==
    /\ calls.pc = "waiting"
    /\ bounded(externalCalls[calls.next])
    /\ calls' = [calls EXCEPT
                    !.outcomes = Append(@, [call |-> calls.next, outcome |-> "timeout"]),
                    !.next = externalCalls[calls.next].onFailure,
                    !.pc = "calling"]
    /\ UNCHANGED <<pc, envVars, sigVars, diffVars, normVars, cycleVars, discVars,
                   priceVars, rpcBounded, batchVars, cliVars>>

\* the unit is done: fetchAllPositions filters and returns
ScanReturns ==
    /\ calls.pc = "calling"
    /\ calls.next > Len(externalCalls)
    /\ calls' = [calls EXCEPT !.pc = "terminated"]
    /\ UNCHANGED <<pc, envVars, sigVars, diffVars, normVars, cycleVars, discVars,
                   priceVars, rpcBounded, batchVars, cliVars>>

NextCalls ==
    \/ CallAnswers
    \/ CallFails
    \/ CallSilent
    \/ TimeoutFires
    \/ ScanReturns

SpecCalls == InitCalls /\ [][NextCalls]_vars

\* the event loop runs every continuation that is ready
LiveCalls == SpecCalls /\ WF_vars(NextCalls)

----------------------------------------------------------------------------
(* Batch splitter: main, orchestrate and generateParallelInstructions of   *)
(* analyze-orchestrator.ts.  A JavaScript number is NaN, Infinity or an    *)
(* integer; a command-line string is a tuple of characters.                *)

MaxFiles == 3

\* batchNum is a double: counting up stops where batchNum + 1 = batchNum
\* (2^53 in the program, MaxBatchNum here)
MaxBatchNum == 6

NaN == [kind |-> "NaN", val |-> 0]
Infinity == [kind |-> "Infinity", val |-> 0]
Num(n) == [kind |-> "number", val |-> n]

digits == <<"0", "1", "2", "3", "4", "5", "6", "7", "8", "9">>
isDigit(ch) == \E d \in 1..Len(digits) : digits[d] = ch
digitValue(ch) == (CHOOSE d \in 1..Len(digits) : digits[d] = ch) - 1

\* parseInt(str): an optional sign, then the longest prefix of digits; NaN
\* when there is no digit
parseInt(str) ==
    LET negative == Len(str) > 0 /\ str[1] = "-"
        body == IF negative THEN Tail(str) ELSE str
        count == Cardinality({k \in 1..Len(body) : \A j \in 1..k : isDigit(body[j])})
        value[k \in 0..count] ==
            IF k = 0 THEN 0 ELSE 10 * value[k - 1] + digitValue(body[k])
    IN IF count = 0 THEN NaN
       ELSE Num(IF negative THEN 0 - value[count] ELSE value[count])

\* main: process.argv[4] ? parseInt(process.argv[4])
\*                       : parseInt(process.env.BATCH_SIZE || '5')
batchSizeOf(argv4, envBatchSize) ==
    IF argv4 # Undefined /\ argv4[1] # <<>>
    THEN parseInt(argv4[1])
    ELSE parseInt(IF envBatchSize # Undefined /\ envBatchSize[1] # <<>>
                  THEN envBatchSize[1] ELSE <<"5">>)

\* Math.ceil(totalCount / batchSize), for totalCount > 0
numBatchesOf(totalCount, batchSize) ==
    IF batchSize.kind = "NaN" THEN NaN
    ELSE IF batchSize.val = 0 THEN Infinity
    ELSE IF batchSize.val > 0
         THEN Num((totalCount + batchSize.val - 1) \div batchSize.val)
    ELSE Num(0 - (totalCount \div (0 - batchSize.val)))

\* batchNum < numBatches
lessThan(batchNum, numBatches) ==
    IF numBatches.kind = "NaN" THEN FALSE
    ELSE IF numBatches.kind = "Infinity" THEN TRUE
    ELSE batchNum < numBatches.val

Min(a, b) == IF a < b THEN a ELSE b

\* positions.slice(startIdx, endIdx), for indexes that are not negative
slice(positions, startIdx, endIdx) ==
    IF endIdx <= startIdx THEN <<>> ELSE SubSeq(positions, startIdx + 1, Min(endIdx, Len(positions)))

\* the batch of one iteration of the loop
batchPositionsOf(positions, batchNum, batchSize) ==
    LET startIdx == batchNum * batchSize.val
        endIdx == Min(startIdx + batchSize.val, Len(positions))
    IN slice(positions, startIdx, endIdx)

\* the request files discoverPositions returns
RequestFiles == {[i \in 1..n |-> "request" \o ToString(i)] : n \in 0..MaxFiles}

ArgumentStrings ==
    {Undefined, Some(<<>>), Some(<<"0">>), Some(<<"1">>), Some(<<"2">>), Some(<<"1", "0">>),
     Some(<<"a", "l", "l">>), Some(<<"2", "x">>), Some(<<"-", "1">>)}

InitBatch ==
    /\ CliUnused
    /\ SigUnused
    /\ DiffUnused
    /\ NormUnused
    /\ CycleUnused
    /\ DiscUnused
    /\ PriceUnused
    /\ CallUnused
    /\ pc = "batch"
    /\ envPercent = Undefined
    /\ envValue = Undefined
    /\ \E argv4 \in ArgumentStrings, envBatchSize \in ArgumentStrings,
          positions \in RequestFiles :
          batch = [pc |-> "main", argv4 |-> argv4, envBatchSize |-> envBatchSize,
                   positions |-> positions, batchSize |-> NaN, numBatches |-> NaN,
                   batchNum |-> 0, batches |-> <<>>]

\* main: the batch size read from the command line or the environment
Main ==
    /\ batch.pc = "main"
    /\ batch' = [batch EXCEPT !.batchSize = batchSizeOf(batch.argv4, batch.envBatchSize),
                              !.pc = "orchestrate"]
    /\ UNCHANGED <<pc, envVars, sigVars, diffVars, normVars, cycleVars, discVars,
                   priceVars, callVars, cliVars>>

\* orchestrate: no request file, process.exit(1)
NoRequests ==
    /\ batch.pc = "orchestrate"
    /\ Len(batch.positions) = 0
    /\ batch' = [batch EXCEPT !.pc = "exited"]
    /\ UNCHANGED <<pc, envVars, sigVars, diffVars, normVars, cycleVars, discVars,
                   priceVars, callVars, cliVars>>

\* generateParallelInstructions up to its loop
CountBatches ==
    /\ batch.pc = "orchestrate"
    /\ Len(batch.positions) > 0
    /\ batch' = [batch EXCEPT
                    !.numBatches = numBatchesOf(Len(batch.positions), batch.batchSize),
                    !.batchNum = 0,
                    !.pc = "loop"]
    /\ UNCHANGED <<pc, envVars, sigVars, diffVars, normVars, cycleVars, discVars,
                   priceVars, callVars, cliVars>>

\* one iteration of the loop: the batch is sliced and printed, batchNum++
EmitBatch ==
    /\ batch.pc = "loop"
    /\ lessThan(batch.batchNum, batch.numBatches)
    /\ LET emitted == batchPositionsOf(batch.positions, batch.batchNum, batch.batchSize)
       IN batch' = [batch EXCEPT
                       !.batches = IF batch.batchNum < Len(@)
                                   THEN [@ EXCEPT ![batch.batchNum + 1] = emitted]
                                   ELSE Append(@, emitted),
                       !.batchNum = Min(@ + 1, MaxBatchNum)]
    /\ UNCHANGED <<pc, envVars, sigVars, diffVars, normVars, cycleVars, discVars,
                   priceVars, callVars, cliVars>>

\* the loop condition is false: generateParallelInstructions returns
LoopEnds ==
    /\ batch.pc = "loop"
    /\ ~lessThan(batch.batchNum, batch.numBatches)
    /\ batch' = [batch EXCEPT !.pc = "returned"]
    /\ UNCHANGED <<pc, envVars, sigVars, diffVars, normVars, cycleVars, discVars,
                   priceVars, callVars, cliVars>>

NextBatch == Main \/ NoRequests \/ CountBatches \/ EmitBatch \/ LoopEnds

SpecBatch == InitBatch /\ [][NextBatch]_vars

\* the event loop runs the orchestrator on
LiveBatch == SpecBatch /\ WF_vars(NextBatch)

----------------------------------------------------------------------------
(* Portfolio CLI: the effect of PortfolioApp in cli.tsx.  The component is *)
(* rendered once with fixed props, so the effect runs once.  lastRefresh   *)
(* is the number of the refresh that set it.                               *)

\* the timer ticks of one session
MaxTimerTicks == 4

\* what loadPortfolioData can settle with: the data of the file, null when
\* the file is absent, or an error
LoadOutcomes ==
    {[kind |-> "data", value |-> "snapshot1"], [kind |-> "data", value |-> "snapshot2"],
     [kind |-> "absent", value |-> ""], [kind |-> "error", value |-> "Unable to read"]}

\* the state the component displays
displayOf(a) ==
    [data |-> a.data, loadError |-> a.loadError, isLoading |-> a.isLoading,
     lastRefresh |-> a.lastRefresh]

\* a plausible slip: the guard forgets the refresh in progress
skipsRefresh_mountedOnly(a) == ~a.isMounted

\* if (!isMounted || refreshing) return
skipsRefresh(a) == ~a.isMounted \/ a.refreshing

\* refresh up to its await: refreshing = true and the load started, unless
\* the guard returns
refreshStarted(a) ==
    IF skipsRefresh(a) THEN a
    ELSE [a EXCEPT !.refreshing = TRUE, !.inFlight = @ + 1]

\* refresh from its await on: the state setters when still mounted, then
\* refreshing = false
refreshSettled(a, outcome) ==
    LET shown ==
            IF ~a.isMounted THEN a
            ELSE [a EXCEPT
                    !.data = IF outcome.kind = "data" THEN Some(outcome.value) ELSE Undefined,
                    !.loadError = IF outcome.kind = "data" THEN Undefined
                                  ELSE IF outcome.kind = "absent"
                                  THEN Some("Positions file not found")
                                  ELSE Some(outcome.value),
                    !.isLoading = FALSE,
                    !.lastRefresh = Some(a.settled + 1)]
    IN [shown EXCEPT !.refreshing = FALSE, !.inFlight = @ - 1, !.settled = @ + 1]

InitCli ==
    /\ SigUnused
    /\ DiffUnused
    /\ NormUnused
    /\ CycleUnused
    /\ DiscUnused
    /\ PriceUnused
    /\ CallUnused
    /\ BatchUnused
    /\ pc = "cli"
    /\ envPercent = Undefined
    /\ envValue = Undefined
    /\ app = [pc |-> "rendered", data |-> Undefined, loadError |-> Undefined,
              isLoading |-> TRUE, lastRefresh |-> Undefined,
              isMounted |-> FALSE, refreshing |-> FALSE, interval |-> FALSE,
              inFlight |-> 0, settled |-> 0, ticks |-> 0, ignored |-> 0,
              atUnmount |-> Undefined]

\* the effect runs: the state reset, isMounted = true, the first refresh
\* started, the interval set
EffectRuns ==
    /\ app.pc = "rendered"
    /\ app' = refreshStarted([app EXCEPT !.isLoading = TRUE, !.data = Undefined,
                                         !.loadError = Undefined,
                                         !.lastRefresh = Undefined,
                                         !.isMounted = TRUE, !.refreshing = FALSE,
                                         !.interval = TRUE, !.pc = "mounted"])
    /\ UNCHANGED <<pc, envVars, sigVars, diffVars, normVars, cycleVars, discVars,
                   priceVars, callVars, batchVars>>

\* the interval fires: void refresh()
TimerTick ==
    /\ app.interval
    /\ app.ticks < MaxTimerTicks
    /\ app' = [refreshStarted(app) EXCEPT
                  !.ticks = @ + 1,
                  !.ignored = IF skipsRefresh(app) THEN @ + 1 ELSE @]
    /\ UNCHANGED <<pc, envVars, sigVars, diffVars, normVars, cycleVars, discVars,
                   priceVars, callVars, batchVars>>

\* a load in flight settles
LoadSettles ==
    /\ app.inFlight > 0
    /\ \E outcome \in LoadOutcomes : app' = refreshSettled(app, outcome)
    /\ UNCHANGED <<pc, envVars, sigVars, diffVars, normVars, cycleVars, discVars,
                   priceVars, callVars, batchVars>>

\* the cleanup of the effect (q, Esc or Ctrl+C): isMounted = false,
\* clearInterval(interval)
Unmount ==
    /\ app.pc = "mounted"
    /\ app' = [app EXCEPT !.isMounted = FALSE, !.interval = FALSE, !.pc = "unmounted",
                          !.atUnmount = Some(displayOf(app))]
    /\ UNCHANGED <<pc, envVars, sigVars, diffVars, normVars, cycleVars, discVars,
                   priceVars, callVars, batchVars>>

NextCli == EffectRuns \/ TimerTick \/ LoadSettles \/ Unmount

SpecCli == InitCli /\ [][NextCli]_vars

----------------------------------------------------------------------------
(* Claims about the significance filter (SpecSig) *)

ClassifiedValueChange == pc = "classified" /\ sigChange.type = "value_change"

\* the two tests of the specification, computed from the values themselves
PercentTest(oldValue, newValue, pctT) ==
    oldValue > 0 /\ Abs(newValue - oldValue) * 100 >= pctT * oldValue
CurrencyTest(oldValue, newValue, valT) == Abs(newValue - oldValue) >= valT

\* C3: a value_change is significant if and only if |percent delta| >= the
\* percent threshold or |new value - old value| >= the currency threshold,
\* for every old and new value (a new value of zero included)
C3_SignificantIffEitherTest ==
    ClassifiedValueChange =>
        (significant[1] <=>
            (\/ PercentTest(sigChange.oldValue[1], sigChange.newValue[1], percentThreshold)
             \/ CurrencyTest(sigChange.oldValue[1], sigChange.newValue[1], valueThreshold)))

\* C7: a value_change that was significant under thresholds (T, V) is
\* significant under any thresholds (T', V') with T' <= T and V' <= V
C7_SignificanceMonotone ==
    (/\ ClassifiedValueChange
     /\ lastRun # Undefined
     /\ lastRun[1].significant
     /\ percentThreshold <= lastRun[1].percent
     /\ valueThreshold <= lastRun[1].value)
    => significant[1]

\* a value_change significant only through the currency test is classified
\* again under strictly lower thresholds
C7_Witness ==
    /\ ClassifiedValueChange
    /\ lastRun # Undefined
    /\ lastRun[1].significant
    /\ percentThreshold < lastRun[1].percent
    /\ valueThreshold < lastRun[1].value
    /\ ~PercentTest(sigChange.oldValue[1], sigChange.newValue[1], lastRun[1].percent)
    /\ significant[1]

----------------------------------------------------------------------------
(* Claims about the snapshot differencer (SpecDiff) *)

\* every position of a snapshot, whatever its partition
AllPositionsOf(data) ==
    {data.positions[c][i] : <<c, i>> \in
        {ci \in AllCategories \X (1..MaxPos + 1) : ci[2] <= Len(data.positions[ci[1]])}}

\* the symbols of a snapshot: the key of each of its positions
SymbolsOf(data) == {symbolOf(p) : p \in AllPositionsOf(data)} \ {""}

\* how many changes of a type the list holds for a symbol
CountOf(list, type, symbol) ==
    Cardinality({i \in 1..Len(list) : list[i].type = type /\ list[i].symbol = symbol})

Detected == pc \in {"filter", "filtered"}

\* C1: exactly one 'new' change for every symbol in some category of new and
\* in no category of old, exactly one 'closed' change for every symbol in
\* old and not in new, and no symbol with both
C1_DiffCompleteness ==
    Detected =>
        /\ \A sym \in SymbolsOf(newData) \ SymbolsOf(oldData) :
              CountOf(changes, "new", sym) = 1
        /\ \A sym \in SymbolsOf(oldData) \ SymbolsOf(newData) :
              CountOf(changes, "closed", sym) = 1
        /\ \A sym \in SymbolsOf(oldData) \cup SymbolsOf(newData) :
              ~(CountOf(changes, "new", sym) > 0 /\ CountOf(changes, "closed", sym) > 0)

\* the symbols the differencer compares: those of both flattened maps
ComparedSymbols ==
    {sym \in SymbolsOf(oldData) \cap SymbolsOf(newData) :
        Has(flatten(oldData), sym) /\ Has(flatten(newData), sym)}

OldPos(sym) == Get(flatten(oldData), sym)
NewPos(sym) == Get(flatten(newData), sym)

\* C2: for every symbol of both snapshots whose quantity differs, a
\* share_change is emitted and is still in the list after the significance
\* filter of the fetch cycle
C2_QuantityChangeNeverDropped ==
    pc = "filtered" =>
        \A sym \in ComparedSymbols :
            OldPos(sym).shares # NewPos(sym).shares =>
                /\ CountOf(changes, "share_change", sym) = 1
                /\ CountOf(significantChanges, "share_change", sym) = 1

\* C4: for a symbol of both snapshots whose old market value is zero and
\* whose new value differs, a value change is reported when
\* |new value - 0| >= the currency threshold
C4_ZeroOldValueAbsoluteTest ==
    pc = "filtered" =>
        \A sym \in ComparedSymbols :
            (/\ OldPos(sym).marketValue = 0
             /\ NewPos(sym).marketValue # 0
             /\ CurrencyTest(0, NewPos(sym).marketValue, valueThreshold))
            => CountOf(significantChanges, "value_change", sym) = 1

\* the number of positions equal to p in a snapshot
Copies(data, p) ==
    Cardinality({ci \in AllCategories \X (1..MaxPos + 1) :
                    /\ ci[2] <= Len(data.positions[ci[1]])
                    /\ data.positions[ci[1]][ci[2]] = p})

\* the two snapshots hold the same positions, whatever their partition and order
SamePositions(a, b) ==
    \A p \in AllPositionsOf(a) \cup AllPositionsOf(b) : Copies(a, p) = Copies(b, p)

\* C5: a new snapshot holding the same positions as the old one, moved to
\* other partitions or listed in another order, gives no change
C5_LayoutIndependent ==
    (Detected /\ SamePositions(oldData, newData)) => changes = <<>>

\* C6: every value_change is for a symbol of both snapshots with old value
\* > 0 and a different new value and carries these values and
\* percentChange = (new - old) / old * 100; there is exactly one when the
\* percent delta reaches the threshold (old 1000, new 1200, threshold 5:
\* one value_change with percentChange 20, significant), and none when the
\* old value is 0
C6_PercentChange ==
    /\ Detected =>
        /\ \A i \in 1..Len(changes) :
              changes[i].type = "value_change" =>
                  LET sym == changes[i].symbol IN
                  /\ sym \in ComparedSymbols
                  /\ OldPos(sym).marketValue > 0
                  /\ OldPos(sym).marketValue # NewPos(sym).marketValue
                  /\ changes[i].oldValue = Some(OldPos(sym).marketValue)
                  /\ changes[i].newValue = Some(NewPos(sym).marketValue)
                  /\ changes[i].percentChange # Undefined
                  /\ changes[i].percentChange[1].den > 0
                  /\ changes[i].percentChange[1].num * OldPos(sym).marketValue
                        = (NewPos(sym).marketValue - OldPos(sym).marketValue) * 100
                            * changes[i].percentChange[1].den
        /\ \A sym \in ComparedSymbols :
              /\ CountOf(changes, "value_change", sym) <= 1
              /\ OldPos(sym).marketValue = 0 => CountOf(changes, "value_change", sym) = 0
              /\ (/\ OldPos(sym).marketValue # NewPos(sym).marketValue
                  /\ PercentTest(OldPos(sym).marketValue, NewPos(sym).marketValue,
                                 percentThreshold))
                 => CountOf(changes, "value_change", sym) = 1
    /\ pc = "filtered" =>
        \A sym \in ComparedSymbols :
            (/\ OldPos(sym).marketValue = 1000
             /\ NewPos(sym).marketValue = 1200
             /\ percentThreshold = 5)
            => /\ CountOf(significantChanges, "value_change", sym) = 1
               /\ \E i \in 1..Len(significantChanges) :
                     /\ significantChanges[i].type = "value_change"
                     /\ significantChanges[i].symbol = sym
                     /\ FracEq(significantChanges[i].percentChange[1], Frac(20, 1))

\* Scenario A happened: old 1000, new 1200, threshold 5, and the run was filtered
C6_Witness ==
    /\ pc = "filtered"
    /\ percentThreshold = 5
    /\ \E sym \in ComparedSymbols :
          /\ OldPos(sym).marketValue = 1000
          /\ NewPos(sym).marketValue = 1200
          /\ OldPos(sym).shares = NewPos(sym).shares
    /\ Len(significantChanges) = 1

----------------------------------------------------------------------------
(* Claims about the normalizer (SpecNorm) *)

Transformed == pc \in {"crypto", "snapshot"}

\* the ids of the accounts of the snapshot
SurvivingIds == {newData.accounts[k].id : k \in 1..Len(newData.accounts)}

\* the raw rows that become positions and resolve to sym: ISIN rows of
\* positive value, not the liquidity line, owned by a surviving account
RowsOf(sym) ==
    {i \in 1..Len(investmentsData) :
        /\ investmentsData[i].id_account \in SurvivingIds
        /\ investmentsData[i].code_type = "ISIN"
        /\ investmentsData[i].code # "XX-liquidity"
        /\ investmentsData[i].valuation > 0
        /\ (IF investmentsData[i].stock_symbol # ""
            THEN investmentsData[i].stock_symbol
            ELSE investmentsData[i].code) = sym}

RowSymbols == {"VTI", "US01", "FR02"}

\* the sum of a field over the rows of a set
TotalOf(rows, field) ==
    LET f[i \in 0..Len(investmentsData)] ==
            IF i = 0 THEN 0
            ELSE f[i - 1] + (IF i \in rows THEN investmentsData[i][field] ELSE 0)
    IN f[Len(investmentsData)]

\* where the snapshot holds a banking position of a symbol
PlacesOf(sym) ==
    {ci \in (AllCategories \ {"crypto"}) \X (1..MaxRows + 1) :
        /\ ci[2] <= Len(newData.positions[ci[1]])
        /\ newData.positions[ci[1]][ci[2]].symbol = sym}

\* the snapshot holds one position of sym, with the sums of the rows and
\* the unit price recomputed from them
ConsolidatedAs(sym, rows) ==
    /\ Cardinality(PlacesOf(sym)) = 1
    /\ \A ci \in PlacesOf(sym) :
          LET pos == newData.positions[ci[1]][ci[2]] IN
          /\ pos.marketValue = TotalOf(rows, "valuation")
          /\ pos.shares = TotalOf(rows, "quantity")
          /\ TotalOf(rows, "quantity") > 0
          /\ FracEq(pos.currentPrice,
                    Frac(TotalOf(rows, "valuation"), TotalOf(rows, "quantity")))

\* C8 as stated: the rows of surviving accounts that resolve to one symbol are
\* consolidated into one position with marketValue = sum of vi, shares = sum
\* of qi and currentPrice = (sum of vi) / (sum of qi), rows of distinct
\* accounts with the same quantity, value and unit price included
C8_MergeSumsEveryRow ==
    Transformed =>
        \A sym \in RowSymbols : RowsOf(sym) # {} => ConsolidatedAs(sym, RowsOf(sym))

SameLot(i, j) ==
    /\ investmentsData[i].quantity = investmentsData[j].quantity
    /\ investmentsData[i].valuation = investmentsData[j].valuation
    /\ investmentsData[i].unitvalue = investmentsData[j].unitvalue

\* the rows left when a row repeating the quantity, value and unit price
\* of an earlier row of the symbol is dropped
DistinctRowsOf(sym) ==
    {i \in RowsOf(sym) : \A j \in RowsOf(sym) : j < i => ~SameLot(i, j)}

\* What the consolidation does guarantee: the same sums and the same
\* recomputed unit price over the rows left after exact duplicates are
\* dropped, when at least two are left
MergeSumsDistinctRows ==
    Transformed =>
        \A sym \in RowSymbols :
            Cardinality(DistinctRowsOf(sym)) >= 2 => ConsolidatedAs(sym, DistinctRowsOf(sym))

\* C9: in the snapshot of a fetch cycle (banking positions plus the attached
\* crypto positions) no two positions of one partition share a symbol
C9_SymbolUniqueness ==
    pc = "snapshot" =>
        \A c \in AllCategories :
            \A i, j \in 1..Len(newData.positions[c]) :
                i # j => newData.positions[c][i].symbol # newData.positions[c][j].symbol

\* the key of the claim: IBAN, else account number or webid, else name and type
ClaimedKey(a) ==
    IF a.iban # "" THEN a.iban
    ELSE IF a.number # "" THEN a.number
    ELSE IF a.webid # "" THEN a.webid
    ELSE a.original_name \o "-" \o (IF a.id_type # "" THEN a.id_type ELSE a.type)

\* the accounts no earlier account shares the key of
FirstOfKey ==
    {i \in 1..Len(accountsData) :
        \A j \in 1..Len(accountsData) :
            j < i => ClaimedKey(accountsData[j]) # ClaimedKey(accountsData[i])}

\* C10: scanning the accounts in input order, an account is kept exactly when
\* no earlier account has its key, so the unique set holds the first account
\* of every distinct key, once, in input order
C10_AccountDeduplication ==
    Transformed =>
        /\ Len(newData.accounts) = Cardinality(FirstOfKey)
        /\ \A k \in 1..Len(newData.accounts) :
              /\ newData.accounts[k].id \in FirstOfKey
              /\ newData.accounts[k] = accountsData[newData.accounts[k].id]
        /\ \A k, l \in 1..Len(newData.accounts) :
              k < l => /\ newData.accounts[k].id < newData.accounts[l].id
                       /\ ClaimedKey(newData.accounts[k]) # ClaimedKey(newData.accounts[l])
        /\ \A i \in 1..Len(accountsData) :
              \E k \in 1..Len(newData.accounts) :
                  ClaimedKey(newData.accounts[k]) = ClaimedKey(accountsData[i])

\* two accounts with one key taken from different fields (the IBAN of one
\* is the account number of the other): the second is dropped
C10_Witness ==
    /\ Transformed
    /\ Len(accountsData) = 2
    /\ accountsData[1].iban = ""
    /\ accountsData[2].iban # ""
    /\ accountsData[1].number = accountsData[2].iban
    /\ Len(newData.accounts) = 1
    /\ newData.accounts[1] = accountsData[1]

\* the raw rows owned by an account that survived deduplication
RowsOfSurvivors ==
    SelectSeq(investmentsData, LAMBDA row : row.id_account \in FirstOfKey)

\* the cost of the rows of a set: the sum of quantity * unit cost
CostOf(rows) ==
    LET f[i \in 0..Len(investmentsData)] ==
            IF i = 0 THEN 0
            ELSE f[i - 1] + (IF i \in rows
                             THEN investmentsData[i].quantity * investmentsData[i].unitprice
                             ELSE 0)
    IN f[Len(investmentsData)]

\* C11: every position of the snapshot is built only from rows owned by an
\* account that survived deduplication: the positions are those of the same
\* input without the rows of dropped accounts, every position names only
\* surviving accounts, and its quantity, market value and cost basis are sums
\* over rows of surviving accounts (pc = "crypto": transformToInternalFormat
\* has just returned)
C11_OnlyRowsOfSurvivingAccounts ==
    pc = "crypto" =>
        /\ SurvivingIds = FirstOfKey
        /\ newData.positions =
              transformToInternalFormat(accountsData, RowsOfSurvivors).positions
        /\ \A sym \in RowSymbols :
              /\ PlacesOf(sym) # {} <=> RowsOf(sym) # {}
              /\ \A ci \in PlacesOf(sym) :
                    LET pos == newData.positions[ci[1]][ci[2]] IN
                    /\ \A k \in 1..Len(pos.account) : pos.account[k] \in FirstOfKey
                    /\ pos.shares = TotalOf(DistinctRowsOf(sym), "quantity")
                    /\ pos.marketValue = TotalOf(DistinctRowsOf(sym), "valuation")
                    /\ pos.costBasis = CostOf(DistinctRowsOf(sym))

\* a row of a surviving account and a row of the symbol owned by the dropped
\* duplicate account 3: the position holds the first row only
C11_Witness ==
    /\ Transformed
    /\ Len(accountsData) = 3
    /\ 3 \notin FirstOfKey
    /\ Len(investmentsData) = 2
    /\ investmentsData[1].id_account = 1
    /\ investmentsData[2].id_account = 3
    /\ investmentsData[2].code_type = "ISIN"
    /\ investmentsData[2].stock_symbol = "VTI"
    /\ investmentsData[2].valuation = 300
    /\ investmentsData[1].valuation = 500
    /\ RowsOf("VTI") = {1}
    /\ \E ci \in PlacesOf("VTI") : newData.positions[ci[1]][ci[2]].marketValue = 500

\* the sum of the balances of the accounts that survive deduplication
SurvivorBalances ==
    LET f[i \in 0..Len(accountsData)] ==
            IF i = 0 THEN 0
            ELSE f[i - 1] + (IF i \in FirstOfKey THEN accountsData[i].balance ELSE 0)
    IN f[Len(accountsData)]

\* the sum of the market values of the crypto positions stored in the snapshot
StoredCryptoValue ==
    LET stored == newData.positions.crypto
        f[i \in 0..Len(stored)] ==
            IF i = 0 THEN 0 ELSE f[i - 1] + stored[i].marketValue
    IN f[Len(stored)]

\* C12: totalNetWorth is the sum of the balances of the deduplicated
\* accounts, whatever the instrument valuations, plus, once crypto has been
\* fetched and attached, the sum of the market values of exactly the crypto
\* positions stored in the snapshot
C12_TotalNetWorth ==
    /\ pc = "crypto" => newData.totalNetWorth = SurvivorBalances
    /\ pc = "snapshot" => newData.totalNetWorth = SurvivorBalances + StoredCryptoValue

\* a snapshot with two crypto positions stored (ETH 500 and USDC 200) on top
\* of an account balance of 100
C12_Witness ==
    /\ pc = "snapshot"
    /\ Len(newData.positions.crypto) = 2
    /\ StoredCryptoValue = 700
    /\ SurvivorBalances = 100
    /\ newData.totalNetWorth = 800

\* three accounts of balances 100, 250 and 40, the third a dropped duplicate,
\* and rows valued 500 and 300: the total is 350
C12_WitnessAccounts ==
    /\ pc = "crypto"
    /\ Len(accountsData) = 3
    /\ FirstOfKey = {1, 2}
    /\ TotalOf(RowsOf("VTI"), "valuation") = 800
    /\ newData.totalNetWorth = 350

\* the fixed order of the category tests
CategoryOrder ==
    <<"real_estate", "funds", "private_equity", "private_debt", "crowdfunding">>

\* a pattern of the category is contained in the lower-cased display name
Matches(k, name) ==
    \E term \in patterns[CategoryOrder[k]] : includes(toLowerCase(name), term)

\* the first category of the order with a matching pattern, else equities
FirstMatch(name) ==
    IF \E k \in 1..Len(CategoryOrder) : Matches(k, name)
    THEN CategoryOrder[CHOOSE k \in 1..Len(CategoryOrder) :
                          /\ Matches(k, name)
                          /\ \A j \in 1..(k - 1) : ~Matches(j, name)]
    ELSE "equities"

\* the symbols of the rows that become positions
AdmittedSymbols ==
    {investmentSymbol(investmentsData[i]) :
        i \in {j \in 1..Len(investmentsData) :
                  /\ investmentsData[j].id_account \in FirstOfKey
                  /\ investmentsData[j].code_type = "ISIN"
                  /\ investmentsData[j].code # "XX-liquidity"
                  /\ investmentsData[j].valuation > 0}}

\* where the snapshot holds a position of a symbol, over all nine partitions
AllPlacesOf(sym) ==
    {ci \in AllCategories \X (1..MaxRows + 1) :
        /\ ci[2] <= Len(newData.positions[ci[1]])
        /\ newData.positions[ci[1]][ci[2]].symbol = sym}

\* C13: each consolidated position is placed in exactly one partition, that
\* of the first category, in the order real_estate, funds, private_equity,
\* private_debt, crowdfunding, with a pattern contained in the lower-cased
\* display name, and equities when none matches
C13_FirstMatchingCategory ==
    pc = "crypto" =>
        /\ \A sym \in AdmittedSymbols : Cardinality(AllPlacesOf(sym)) = 1
        /\ \A c \in AllCategories :
              \A i \in 1..Len(newData.positions[c]) :
                  c = FirstMatch(newData.positions[c][i].name)

\* "REIT Fund" matches a real_estate and a funds pattern and is placed in
\* real_estate; "Acme" matches nothing and is placed in equities
C13_Witness ==
    /\ pc = "crypto"
    /\ Len(investmentsData) = 2
    /\ investmentsData[1].label = Names[1]
    /\ investmentsData[2].label = Names[8]
    /\ Matches(1, Names[1])
    /\ Matches(2, Names[1])
    /\ Len(newData.positions.real_estate) = 1
    /\ newData.positions.real_estate[1].name = Names[1]
    /\ Len(newData.positions.funds) = 0
    /\ Len(newData.positions.equities) = 1
    /\ newData.positions.equities[1].name = Names[8]

----------------------------------------------------------------------------
(* Claims about the fetch cycle and the ledger (SpecCycle) *)

IsPrefix(a, b) == Len(a) <= Len(b) /\ SubSeq(b, 1, Len(a)) = a

\* the cycles that run
Running == {w \in Writers : cycle[w].pc # "idle"}

\* C14: with one writer the ledger is append-only: at every step the entries
\* before are a prefix of the entries after, so no entry is edited, reordered
\* or removed and the length never decreases
C14_LedgerAppendOnly ==
    [][Cardinality(Running) = 1 => IsPrefix(ledgerFile, ledgerFile')]_vars

\* one writer has appended a price update and its completion behind the
\* entry the ledger held before
C14_Witness ==
    /\ Cardinality(Running) = 1
    /\ Len(ledgerFile) = 3
    /\ ledgerFile[1] = completedEntry(0)
    /\ ledgerFile[2].phase = "price_update"
    /\ ledgerFile[3].status = "completed"
    /\ \A w \in Running : cycle[w].result = "true"

InLedger(e) == \E i \in 1..Len(ledgerFile) : ledgerFile[i] = e

\* C15: appends are atomic with respect to concurrent writers: whatever the
\* interleaving of the reads and writes of two cycles, the ledger holds every
\* entry that either of them has written
C15_NoLostEntry ==
    \A w \in Writers :
        \A i \in 1..Len(cycle[w].logged) : InLedger(cycle[w].logged[i])

\* the banking collaborator could not be reached by the cycle
Unreachable(w) == cycle[w].faults \cap {"auth", "accounts", "investments"} # {}

\* C16: a cycle during which authentication, the accounts request or the
\* investments request failed reports failure, writes no 'completed' entry
\* and no position_change entry, and does not write the positions file
C16_UnreachableBankAborts ==
    \A w \in Writers :
        Unreachable(w) =>
            /\ cycle[w].pc = "done" => cycle[w].result = "false"
            /\ cycle[w].pc # "positionsWrite"
            /\ \A i \in 1..Len(cycle[w].logged) :
                  /\ cycle[w].logged[i].status # "completed"
                  /\ cycle[w].logged[i].phase # "position_change"

\* a write of the ledger file or of the positions file failed in the cycle
PersistenceFailed(w) == cycle[w].faults \cap {"ledger", "positions"} # {}

\* C17: a cycle in which a write of the ledger file or of the positions file
\* failed does not report success: it returns false or raises an error
C17_PersistenceFailureSurfaced ==
    \A w \in Writers :
        (cycle[w].pc = "done" /\ PersistenceFailed(w)) => cycle[w].result # "true"

\* the ledger records a change or the completion of the run of cycle w
RecordsRun(w) ==
    \E i \in 1..Len(ledgerFile) :
        /\ ledgerFile[i].run = w
        /\ \/ ledgerFile[i].status = "completed"
           \/ ledgerFile[i].phase \in {"position_change", "price_update"}

\* C18: a cycle that is cancelled or stops at any step has committed nothing
\* partial: once a cycle running alone has stopped or ended, the ledger
\* records changes or the completion of its run only if the positions file
\* holds its new snapshot
C18_NothingPartial ==
    \A w \in Writers :
        (Running = {w} /\ cycle[w].pc \in {"stopped", "done"} /\ RecordsRun(w))
            => positionsFile = cycle[w].newData

----------------------------------------------------------------------------
(* Claims about token discovery (SpecDisc) *)

\* the Token Registry holds an entry for the address, whatever its case
Registered(address) ==
    Cached(tokenDatabase, cacheKey(scanChain, addressToLowerCase(address)))

\* discoverTokens has just returned
DiscoveryReturned == scan.pc = "resolve" /\ scan.next = 1

\* C19: token discovery never returns a contract address that is already in
\* the Token Registry (matched case-insensitively): with 3 transfer events
\* for a registered contract and 1 for an unregistered one, the result holds
\* exactly the unregistered one
C19_DiscoveryExclusivity ==
    DiscoveryReturned =>
        \A i \in 1..Len(scan.discovered) : ~Registered(scan.discovered[i].address)

\* researchToken was called for the address in the run
ResearchedIn(run, address) ==
    \E i \in 1..Len(researchLog) :
        researchLog[i].run = run /\ researchLog[i].address = address

----------------------------------------------------------------------------
(* Claims about the price cache (SpecPrice) *)

AgeOf(lookup) == lookup.at - lookup.cached[1].timestamp
Window == cacheExpiryHours * 60 * 60 * 1000

\* C22: a price lookup returns the cached price without asking the pricing
\* source only if the entry exists and its age is strictly below the expiry
\* window; an entry whose age equals or exceeds the window is a miss, and the
\* pricing source is asked
C22_FreshOnlyBelowWindow ==
    pricing # <<>> =>
        \A i \in 1..Len(pricing.lookups) :
            LET lookup == pricing.lookups[i]
            IN /\ lookup.outcome = "cached" =>
                    /\ lookup.cached # Undefined
                    /\ AgeOf(lookup) < Window
                    /\ lookup.price = lookup.cached[1].price
               /\ (lookup.cached # Undefined /\ AgeOf(lookup) >= Window) =>
                    lookup.outcome \in {"requested", "answered", "failed"}

\* one lookup served from an entry younger than the window, one lookup of an
\* entry exactly as old as the window sent to the pricing source
C22_Witness ==
    /\ pricing # <<>>
    /\ Len(pricing.lookups) = 2
    /\ pricing.lookups[1].outcome = "cached"
    /\ AgeOf(pricing.lookups[1]) = HalfHour
    /\ pricing.lookups[2].cached # Undefined
    /\ AgeOf(pricing.lookups[2]) = Window
    /\ pricing.lookups[2].outcome = "answered"

\* C23: a price lookup whose request to the pricing source fails returns 0,
\* leaves the cache entry of its key as it was, and does not stop the scan:
\* the balance of the token is resolved, with a value of 0, and every token
\* of the scan has been handled when the scan returns
C23_FailedFetchYieldsZero ==
    pricing # <<>> =>
        /\ \A i \in 1..Len(pricing.lookups) :
              LET lookup == pricing.lookups[i]
              IN lookup.outcome = "failed" =>
                    /\ lookup.price = 0
                    /\ lookup.cachedAfter = lookup.cached
                    /\ Len(pricing.results) >= lookup.token
                    /\ pricing.results[lookup.token] =
                           Some(TokenBalance(pricing.tokens[lookup.token], 0))
        /\ pricing.pc = "returned" => Len(pricing.results) = Len(pricing.tokens)

\* the first lookup fails over a stale entry, the second token is resolved
\* all the same
C23_Witness ==
    /\ pricing # <<>>
    /\ pricing.pc = "returned"
    /\ Len(pricing.lookups) = 2
    /\ pricing.lookups[1].outcome = "failed"
    /\ pricing.lookups[1].cached # Undefined
    /\ priceCache[pricing.lookups[1].key] = pricing.lookups[1].cached
    /\ pricing.lookups[2].outcome = "answered"
    /\ pricing.results[2] # Undefined
    /\ pricing.results[2][1].valueUsd > 0

----------------------------------------------------------------------------
(* Claims about the crypto scan (SpecNorm) *)

CryptoAttached == pc = "snapshot" /\ isCryptoConfigured /\ cryptoConfigLoads

\* the stored crypto positions of one wallet on one chain
StoredOf(w, c) ==
    SelectSeq(newData.positions.crypto,
              LAMBDA pos : pos.wallet = cryptoWallets[w] /\ pos.chain = chainNames[c])

\* what a unit that did not fail has to contribute: its native coin and its
\* tokens, those worth the minimum position value
NativeDue(w, c) ==
    LET answer == walletResults[w][c]
    IN IF answer.nativeBalance * answer.nativePrice >= minPositionValue
       THEN <<[symbol |-> nativeCurrency[chainNames[c]].symbol,
               marketValue |-> answer.nativeBalance * answer.nativePrice]>>
       ELSE <<>>

TokensDue(w, c) ==
    LET worth == SelectSeq(walletResults[w][c].erc20Tokens,
                           LAMBDA token : token.valueUsd >= minPositionValue)
    IN [i \in 1..Len(worth) |->
            [symbol |-> worth[i].symbol, marketValue |-> worth[i].valueUsd]]

\* C24: a (wallet, chain) unit that fails never makes fetchAllPositions fail
\* and costs no other unit its positions: once the crypto positions are
\* attached, every unit that did not fail has contributed exactly its own
\* positions, whatever happened to the other units, and a failed unit has
\* contributed none
C24_UnitFailureIsolated ==
    CryptoAttached =>
        \A w \in 1..Len(cryptoWallets), c \in 1..Len(chainNames) :
            LET stored == StoredOf(w, c)
                due == IF walletResults[w][c].failed THEN <<>>
                       ELSE NativeDue(w, c) \o TokensDue(w, c)
            IN /\ Len(stored) = Len(due)
               /\ \A i \in 1..Len(due) :
                     /\ stored[i].symbol = due[i].symbol
                     /\ stored[i].marketValue = due[i].marketValue

\* two wallets; the first fails on ethereum and on polygon, the second fails
\* on ethereum and still delivers its coin and its token of polygon
C24_Witness ==
    /\ CryptoAttached
    /\ Len(cryptoWallets) = 2
    /\ walletResults[1][1].failed
    /\ walletResults[1][2].failed
    /\ walletResults[2][1].failed
    /\ ~walletResults[2][2].failed
    /\ Len(StoredOf(2, 2)) = 2
    /\ Len(newData.positions.crypto) = 2

----------------------------------------------------------------------------
(* Claims about the external calls of the crypto scan (LiveCalls) *)

\* C25: no operation of the crypto scan blocks indefinitely: whatever the
\* collaborators do, a collaborator that never answers included, the scan
\* eventually terminates
C25_ScanTerminates == <>(calls # <<>> /\ calls.pc = "terminated")

----------------------------------------------------------------------------
(* Claims about unchanged data (SpecDiff) *)

\* C26: the diff of a snapshot with itself is empty: when the new snapshot
\* equals the previous one, detectChanges returns no change, no change is
\* significant, and the loop over the significant changes has no
\* position_change or price_update entry to append to the ledger
C26_DiffIdempotent ==
    (pc \in {"filter", "filtered"} /\ oldData = newData) =>
        /\ changes = <<>>
        /\ pc = "filtered" =>
              /\ significantChanges = <<>>
              /\ changeEntries(1, significantChanges) = <<>>

\* the same two positions, of two symbols and two values, in both snapshots
C26_Witness ==
    /\ pc = "filtered"
    /\ oldData = newData
    /\ Len(flatten(newData)) = 2
    /\ flatten(newData)[1].pos.marketValue # flatten(newData)[2].pos.marketValue
    /\ changes = <<>>

----------------------------------------------------------------------------
(* Claims about the entries of one run (SpecCycle) *)

\* the cycle reached change detection and is past its last logToLedger call
LoggedItsRun(w) ==
    /\ cycle[w].newData # Undefined
    /\ cycle[w].pc \in {"positionsWrite", "done"}

SoleWriter(w) == \A v \in Writers \ {w} : cycle[v].pc = "idle"

\* the significant changes that get a detail entry
Detailed(w) ==
    SelectSeq(cycle[w].significantChanges,
              LAMBDA c : c.type \in {"new", "closed", "value_change"})

IsDetailOf(entry, change) ==
    /\ entry.symbol = change.symbol
    /\ change.type = "new" => entry.phase = "position_change" /\ entry.status = "opened"
    /\ change.type = "closed" => entry.phase = "position_change" /\ entry.status = "closed"
    /\ change.type = "value_change" =>
          entry.phase = "price_update" /\ entry.status = "significant"

ChangesOfType(list, type) == Cardinality({i \in 1..Len(list) : list[i].type = type})

\* C27: a fetch cycle that reaches change detection hands the ledger one
\* detail entry per significant change of type new, closed or value_change,
\* in the order of the change list, and then exactly one data_collection
\* entry of status 'completed', the last of the run, whose summary counts the
\* significant changes, the new changes and the closed changes; when the
\* cycle runs alone and no ledger write fails, these are the entries of the
\* run in the ledger file
C27_RunEntries ==
    \A w \in Writers :
        LoggedItsRun(w) =>
            LET handed == cycle[w].handed
                detailed == Detailed(w)
                last == handed[Len(handed)]
            IN /\ Len(handed) = Len(detailed) + 1
               /\ \A i \in 1..Len(detailed) : IsDetailOf(handed[i], detailed[i])
               /\ last.phase = "data_collection"
               /\ last.status = "completed"
               /\ last.summary.significantMovements = Len(cycle[w].significantChanges)
               /\ last.summary.newPositions = ChangesOfType(cycle[w].changes, "new")
               /\ last.summary.closedPositions = ChangesOfType(cycle[w].changes, "closed")
               /\ (SoleWriter(w) /\ "ledger" \notin cycle[w].faults) =>
                     SelectSeq(ledgerFile, LAMBDA e : e.run = w) = handed

\* a cycle alone: the instrument was 2 units worth 1500 and is 5 units worth
\* 500, a significant value change and a significant quantity change; the
\* ledger holds the price_update entry, then the completed entry counting 2
C27_Witness ==
    /\ LoggedItsRun(1)
    /\ SoleWriter(1)
    /\ cycle[1].faults = {}
    /\ Len(cycle[1].significantChanges) = 2
    /\ Len(ledgerFile) = 3
    /\ ledgerFile[2].phase = "price_update"
    /\ ledgerFile[3].status = "completed"
    /\ ledgerFile[3].summary.significantMovements = 2

\* a cycle alone that finds one position opened and one closed: the ledger
\* holds the opened entry, the closed entry, and the completed entry
\* counting both
OpenedAndClosedLogged ==
    /\ LoggedItsRun(1)
    /\ SoleWriter(1)
    /\ cycle[1].faults = {}
    /\ Len(ledgerFile) = 3
    /\ ledgerFile[1].status = "opened"
    /\ ledgerFile[2].status = "closed"
    /\ ledgerFile[3].summary =
          [newPositions |-> 1, closedPositions |-> 1, significantMovements |-> 2]

----------------------------------------------------------------------------
(* Claims about the returned token list (SpecDisc) *)

IsKnownAddress(address) ==
    \E k \in 1..Len(knownTokens) :
        addressToLowerCase(knownTokens[k].address) = addressToLowerCase(address)

\* C28: the token list of getAllTokensForWallet never holds the same contract
\* address twice, addresses compared without regard to case: an address of
\* knownTokens is handled on the known-token path only, never researched nor
\* served from the database on the discovery path, and each discovered
\* address is handled at most once
C28_NoAddressTwice ==
    scan # <<>> =>
        /\ \A i \in 1..Len(scan.tokens), j \in 1..Len(scan.tokens) :
              i # j => addressToLowerCase(scan.tokens[i].contractAddress)
                         # addressToLowerCase(scan.tokens[j].contractAddress)
        /\ \A address \in scan.served : ~IsKnownAddress(address)
        /\ \A i \in 1..Len(researchLog) : ~IsKnownAddress(researchLog[i].address)
        /\ \A i \in 1..Len(researchLog), j \in 1..Len(researchLog) :
              (i # j /\ researchLog[i].run = researchLog[j].run) =>
                  researchLog[i].address # researchLog[j].address

\* the history names the known token in lower case and another held token
\* twice, in both spellings: the list returned holds each of them once
C28_Witness ==
    /\ scan # <<>>
    /\ scan.pc = "returned"
    /\ scan.run = 1
    /\ scan.transfers = <<Address("fee", FALSE), Address("abc", TRUE),
                          Address("abc", FALSE), Address("fee", FALSE)>>
    /\ Len(scan.discovered) = 2
    /\ scan.tokens = <<[contractAddress |-> Address("fee", TRUE)],
                       [contractAddress |-> Address("abc", FALSE)]>>

----------------------------------------------------------------------------
(* Claims about the batch splitter (LiveBatch) *)

\* the batches are consecutive, of at most batchSize files, and hold every
\* request file exactly once, in the original order
SplitsIntoBatches ==
    /\ Concat(batch.batches) = batch.positions
    /\ \A b \in 1..Len(batch.batches) :
          /\ batch.batchSize.kind = "number"
          /\ Len(batch.batches[b]) <= batch.batchSize.val

\* C29: generateParallelInstructions terminates for every list of request
\* files and every batch size, 0 and a non-number included, and when it has
\* run the batches it printed split the list: consecutive, of at most
\* batchSize files, every request file in exactly one batch
C29_TerminatesAndSplits ==
    /\ <>(batch # <<>> /\ batch.pc \in {"returned", "exited"})
    /\ [](batch # <<>> /\ batch.pc = "returned" => SplitsIntoBatches)

----------------------------------------------------------------------------
(* Claims about the portfolio CLI (SpecCli) *)

\* C30: at most one load of the positions file is in flight at any time, a
\* timer tick that fires during a refresh starting none; and once the
\* component is unmounted, the data, the error, the loading flag and the last
\* refresh it displays stay what they were, whatever settles afterwards
C30_OneLoadNoLateUpdate ==
    app # <<>> =>
        /\ app.inFlight <= 1
        /\ app.inFlight = 1 <=> app.refreshing
        /\ app.pc = "unmounted" => displayOf(app) = app.atUnmount[1]

\* two ticks were ignored during the first refresh, then the component was
\* unmounted and the load settled: nothing it shows changed
C30_Witness ==
    /\ app # <<>>
    /\ app.pc = "unmounted"
    /\ app.ignored = 2
    /\ app.settled = 1
    /\ app.inFlight = 0
    /\ app.isLoading
    /\ app.lastRefresh = Undefined

====
